---- MODULE Spec2Model ----
(***************************************************************************)
(* Proximity tracking and display orchestration of flight-tracker-service  *)
(* (tracker-v2.mjs, with the feed client api-fr24.mjs and the display      *)
(* channel channel.mjs it imports; tracker.mjs where it differs).          *)
(*                                                                         *)
(* Units: distances are integers in hundredths of a nautical mile, times   *)
(* are integers in milliseconds.  Text fields are sequences of one-        *)
(* character strings, the empty sequence standing for a missing (falsy)    *)
(* value.  A position is represented by its great-circle distance from     *)
(* the configured centre.                                                  *)
(***************************************************************************)
EXTENDS Integers, Sequences, FiniteSets, TLC

(***************************************************************************)
(* Program constants                                                       *)
(***************************************************************************)
RadiusNm == 70
ThrottleMs == 5000
MaxPathLen == 100
ScreenCount == 3

(***************************************************************************)
(* Bounds of the model                                                     *)
(***************************************************************************)
MaxPolls == 4
MaxFaultyPolls == 2
MaxStoppedPolls == 2
MaxFeed == 2
MaxFaults == 1
MaxSignals == 1
MaxAppends == 103

PollIntervals == {2, 5}
StartTime == 4 * ThrottleMs

\* the runs explored: long ones in which every file write succeeds and no signal
\* arrives, shorter ones with a failing write, shorter ones with a signal
Budgets ==
    {[polls |-> MaxPolls, faults |-> 0, signals |-> 0],
     [polls |-> MaxFaultyPolls, faults |-> MaxFaults, signals |-> 0],
     [polls |-> MaxStoppedPolls, faults |-> 0, signals |-> MaxSignals]}

(***************************************************************************)
(* Text                                                                    *)
(***************************************************************************)
NOSTR == <<>>
UNKNOWN == <<"U", "N", "K", "N", "O", "W", "N">>
ASA416 == <<"A", "S", "A", "4", "1", "6">>
AS416 == <<"A", "S", "4", "1", "6">>
N123AB == <<"N", "1", "2", "3", "A", "B">>
N55ZZ == <<"N", "5", "5", "Z", "Z">>
n55zz == <<" ", "n", "5", "5", "z", "z", " ">>
B738 == <<"B", "7", "3", "8">>
C56X == <<"C", "5", "6", "X">>
SEA == <<"S", "E", "A">>
PDX == <<"P", "D", "X">>

Digits == {"0", "1", "2", "3", "4", "5", "6", "7", "8", "9"}
UpperLetters ==
    {"A", "B", "C", "D", "E", "F", "G", "H", "I", "J", "K", "L", "M",
     "N", "O", "P", "Q", "R", "S", "T", "U", "V", "W", "X", "Y", "Z"}
LowerToUpper ==
    [c \in {"a", "b", "c", "d", "e", "f", "g", "h", "i", "j", "k", "l", "m",
            "n", "o", "p", "q", "r", "s", "t", "u", "v", "w", "x", "y", "z"} |->
        CASE c = "a" -> "A" [] c = "b" -> "B" [] c = "c" -> "C" [] c = "d" -> "D"
          [] c = "e" -> "E" [] c = "f" -> "F" [] c = "g" -> "G" [] c = "h" -> "H"
          [] c = "i" -> "I" [] c = "j" -> "J" [] c = "k" -> "K" [] c = "l" -> "L"
          [] c = "m" -> "M" [] c = "n" -> "N" [] c = "o" -> "O" [] c = "p" -> "P"
          [] c = "q" -> "Q" [] c = "r" -> "R" [] c = "s" -> "S" [] c = "t" -> "T"
          [] c = "u" -> "U" [] c = "v" -> "V" [] c = "w" -> "W" [] c = "x" -> "X"
          [] c = "y" -> "Y" [] c = "z" -> "Z"]

ToUpperCase(s) ==
    [i \in 1..Len(s) |-> IF s[i] \in DOMAIN LowerToUpper THEN LowerToUpper[s[i]] ELSE s[i]]

RECURSIVE TrimStart(_)
TrimStart(s) ==
    IF s # <<>> /\ Head(s) = " " THEN TrimStart(Tail(s)) ELSE s

RECURSIVE TrimEnd(_)
TrimEnd(s) ==
    IF s # <<>> /\ s[Len(s)] = " " THEN TrimEnd(SubSeq(s, 1, Len(s) - 1)) ELSE s

Trim(s) == TrimEnd(TrimStart(s))

(***************************************************************************)
(* getBestCallsign: the session key                                        *)
(***************************************************************************)
BadTypes ==
    {<<"P", "C", "1", "2">>, <<"D", "A", "4", "2">>, <<"D", "A", "6", "2">>,
     <<"P", "A", "2", "8">>, <<"P", "A", "3", "2">>, <<"C", "1", "7", "2">>,
     <<"C", "1", "8", "2">>, <<"C", "2", "0", "6">>, <<"C", "2", "1", "0">>,
     <<"C", "3", "1", "0">>, <<"C", "4", "1", "4">>, <<"C", "4", "2", "1">>,
     <<"B", "E", "3", "6">>, <<"B", "E", "5", "8">>, <<"B", "E", "2", "0">>,
     <<"S", "R", "2", "0">>, <<"S", "R", "2", "2">>, <<"C", "2", "5", "A">>,
     <<"C", "2", "5", "B">>, <<"C", "5", "6", "X">>, <<"E", "5", "0", "P">>,
     <<"E", "5", "5", "P">>, <<"F", "A", "5", "0">>, <<"G", "1", "0", "0">>,
     <<"G", "2", "0", "0">>, <<"T", "B", "M", "7">>, <<"T", "B", "M", "8">>,
     <<"T", "B", "M", "9">>}

IsValid(cs, aircraftType) ==
    /\ cs # NOSTR
    /\ Len(cs) >= 3
    /\ cs[1] \in UpperLetters
    /\ ~(\A i \in 1..Len(cs) : cs[i] \in Digits)
    /\ ~(aircraftType # NOSTR /\ cs = aircraftType)
    /\ cs \notin BadTypes

IsValidReg(reg) ==
    /\ reg # NOSTR
    /\ Len(reg) >= 2
    /\ reg[1] = "N"
    /\ \A i \in 2..Len(reg) : reg[i] \in Digits \cup UpperLetters

\* variant: the registration is preferred to the callsign
GetBestCallsignRegFirst(flight) ==
    LET callsign == ToUpperCase(Trim(flight.callsign))
        registration == ToUpperCase(Trim(flight.registration))
        aircraftType == ToUpperCase(Trim(flight.aircraftType))
    IN  IF IsValidReg(registration) THEN registration
        ELSE IF IsValid(callsign, aircraftType) THEN callsign
        ELSE IF callsign # NOSTR THEN callsign
        ELSE IF registration # NOSTR THEN registration
        ELSE UNKNOWN

GetBestCallsign(flight) ==
    LET callsign == ToUpperCase(Trim(flight.callsign))
        registration == ToUpperCase(Trim(flight.registration))
        aircraftType == ToUpperCase(Trim(flight.aircraftType))
    IN  IF IsValid(callsign, aircraftType) THEN callsign
        ELSE IF IsValidReg(registration) THEN registration
        ELSE IF callsign # NOSTR THEN callsign
        ELSE IF registration # NOSTR THEN registration
        ELSE UNKNOWN

(***************************************************************************)
(* The feed: raw observations and fetchFR24Flights                         *)
(***************************************************************************)
\* items[1] and items[2]: a coordinate is <<>> when the feed gives none, else
\* <<degrees * 10000>>; dist is what calculateDistance makes of the position
Observation(icao, callsign, registration, aircraftType, flightNumber, origin, destination, onGround, hasPos, dist, altitude, speed) ==
    [icao |-> icao, callsign |-> callsign, registration |-> registration,
     aircraftType |-> aircraftType, flightNumber |-> flightNumber,
     origin |-> origin, destination |-> destination, onGround |-> onGround,
     lat |-> IF hasPos THEN <<407488>> ELSE <<>>,
     lon |-> IF hasPos THEN <<-739854>> ELSE <<>>,
     dist |-> dist, altitude |-> altitude, speed |-> speed]

ObsA_near == Observation(<<"A", "1">>, ASA416, N123AB, B738, AS416, SEA, PDX, FALSE, TRUE, 20, 3000, 210)
ObsA_mid == Observation(<<"A", "1">>, ASA416, N123AB, B738, NOSTR, NOSTR, NOSTR, FALSE, TRUE, 50, 4000, 250)
ObsA_far == Observation(<<"A", "1">>, ASA416, N123AB, B738, AS416, SEA, PDX, FALSE, TRUE, 90, 5000, 280)
ObsB_mid == Observation(<<"B", "2">>, C56X, n55zz, C56X, NOSTR, PDX, SEA, FALSE, TRUE, 35, 1800, 130)
ObsC_ground == Observation(<<"C", "3">>, N123AB, N123AB, B738, NOSTR, NOSTR, NOSTR, TRUE, TRUE, 10, 0, 5)

RawObs == {ObsA_near, ObsA_mid, ObsA_far, ObsB_mid, ObsC_ground}

\* feed.js answers with an object keyed by ICAO address: no address twice
RawFeeds ==
    {f \in UNION {[1..n -> RawObs] : n \in 0..MaxFeed} :
        \A i, j \in 1..Len(f) : i # j => f[i].icao # f[j].icao}

\* the answer to one request: a feed object, or a failure (network error or
\* HTTP status)
FetchResponses ==
    {[ok |-> TRUE, data |-> f] : f \in RawFeeds} \cup {[ok |-> FALSE, data |-> <<>>]}

CalculateDistance(obs) == obs.dist

Flight(obs) ==
    [icao |-> obs.icao, callsign |-> obs.callsign, registration |-> obs.registration,
     aircraftType |-> obs.aircraftType, flightNumber |-> obs.flightNumber,
     origin |-> obs.origin, destination |-> obs.destination,
     distance |-> CalculateDistance(obs), altitude |-> obs.altitude, speed |-> obs.speed]

\* the sort key of a flight whose falsy (zero) distance is replaced by zeroKey
DistanceKey(f, zeroKey) == IF f.distance = 0 THEN zeroKey ELSE f.distance

\* a.distance - b.distance
FeedZeroKey == 0

\* (a.distance || 999) - (b.distance || 999), 999 NM in hundredths
RunZeroKey == 99900

\* Array.prototype.sort is stable
RECURSIVE InsertByKey(_, _, _)
InsertByKey(sorted, f, zeroKey) ==
    IF sorted = <<>> THEN <<f>>
    ELSE IF DistanceKey(f, zeroKey) < DistanceKey(Head(sorted), zeroKey) THEN <<f>> \o sorted
    ELSE <<Head(sorted)>> \o InsertByKey(Tail(sorted), f, zeroKey)

RECURSIVE SortByKey(_, _)
SortByKey(flights, zeroKey) ==
    IF flights = <<>> THEN <<>>
    ELSE InsertByKey(SortByKey(SubSeq(flights, 1, Len(flights) - 1), zeroKey),
                     flights[Len(flights)], zeroKey)

InRadius(distance, radiusNm) == distance <= radiusNm

\* a coordinate in a condition: null, undefined and 0 are falsy
Truthy(coordinate) == coordinate # <<>> /\ coordinate[1] # 0

\* if (flight.lat && flight.lon)
HasPosition(o) == Truthy(o.lat) /\ Truthy(o.lon)

RECURSIVE FilterFR24(_, _)
FilterFR24(raw, radiusNm) ==
    IF raw = <<>> THEN <<>>
    ELSE LET o == Head(raw)
             rest == FilterFR24(Tail(raw), radiusNm)
         IN  IF o.onGround THEN rest
             ELSE IF HasPosition(o) /\ InRadius(CalculateDistance(o), radiusNm)
                  THEN <<Flight(o)>> \o rest
             ELSE rest

ParseFR24Flights(raw, radiusNm) == SortByKey(FilterFR24(raw, radiusNm), FeedZeroKey)

\* a failed request is caught inside the client and answered with an empty list
FetchFR24Flights(response, radiusNm) ==
    IF ~response.ok THEN <<>> ELSE ParseFR24Flights(response.data, radiusNm)

(***************************************************************************)
(* Session tracker: flightHistory is a Map, kept here in insertion order   *)
(***************************************************************************)
HistIndex(hist, callsign) ==
    IF \E i \in 1..Len(hist) : hist[i].callsign = callsign
    THEN CHOOSE i \in 1..Len(hist) :
            /\ hist[i].callsign = callsign
            /\ \A j \in 1..(i - 1) : hist[j].callsign # callsign
    ELSE 0

\* Map.prototype.set
HistSet(hist, session) ==
    LET i == HistIndex(hist, session.callsign)
    IN  IF i = 0 THEN Append(hist, session) ELSE [hist EXCEPT ![i] = session]

\* data.forEach(f => flightHistory.set(f.callsign, f))
RECURSIVE LoadFlightHistory(_, _)
LoadFlightHistory(hist, data) ==
    IF data = <<>> THEN hist
    ELSE LoadFlightHistory(HistSet(hist, Head(data)), Tail(data))

\* variant: a successful write appends the newest session to the file
SaveFlightHistoryAppend(file, hist, ok) ==
    IF ok /\ hist # <<>> THEN Append(file, hist[Len(hist)]) ELSE file

\* fs.writeFileSync of Array.from(flightHistory.values()); a failure is logged
SaveFlightHistory(file, hist, ok) == IF ok THEN hist ELSE file

\* Math.round(ms / 1000) for ms >= 0
RoundSeconds(ms) == (ms + 500) \div 1000

NewSession(flight, t) ==
    [callsign |-> flight.callsign,
     flightNumber |-> flight.flightNumber,
     aircraftType |-> flight.aircraftType,
     origin |-> flight.origin,
     destination |-> flight.destination,
     icao |-> flight.icao,
     registration |-> flight.registration,
     firstSeen |-> t,
     lastSeen |-> t,
     duration |-> 0,
     closestDistance |-> flight.distance,
     closestAltitude |-> flight.altitude,
     closestSpeed |-> flight.speed,
     initialDistance |-> flight.distance,
     initialAltitude |-> flight.altitude,
     initialSpeed |-> flight.speed]

\* variant: an equal distance also counts as closer
IsCloserOrEqual(distance, closestDistance) == distance <= closestDistance

IsCloser(distance, closestDistance) == distance < closestDistance

\* variant: a non-empty value always replaces the stored one
FirstWriteLast(old, value) == IF value # NOSTR THEN value ELSE old

\* if (value && !existing.field) existing.field = value
FirstWrite(old, value) == IF value # NOSTR /\ old = NOSTR THEN value ELSE old

\* variant: an update restarts the session at the new observation
UpdateSessionRestarts(existing, flight, t) ==
    [existing EXCEPT
        !.firstSeen = t,
        !.lastSeen = t,
        !.duration = 0,
        !.closestDistance = IF flight.distance < @ THEN flight.distance ELSE @,
        !.initialDistance = flight.distance,
        !.initialAltitude = flight.altitude,
        !.initialSpeed = flight.speed]

UpdateSession(existing, flight, t) ==
    LET closer == IsCloser(flight.distance, existing.closestDistance)
    IN  [existing EXCEPT
            !.lastSeen = t,
            !.duration = RoundSeconds(t - existing.firstSeen),
            !.closestDistance = IF closer THEN flight.distance ELSE @,
            !.closestAltitude = IF closer THEN flight.altitude ELSE @,
            !.closestSpeed = IF closer THEN flight.speed ELSE @,
            !.origin = FirstWrite(@, flight.origin),
            !.destination = FirstWrite(@, flight.destination),
            !.flightNumber = FirstWrite(@, flight.flightNumber),
            !.aircraftType = FirstWrite(@, flight.aircraftType),
            !.icao = FirstWrite(@, flight.icao),
            !.registration = FirstWrite(@, flight.registration)]

\* flight.callsign = getBestCallsign(flight)
ResolveFlight(flight) == [flight EXCEPT !.callsign = GetBestCallsign(flight)]

\* variant: every call makes a new entry, whether or not the identity has one
TrackFlightNoLookup(hist, flight, t) ==
    Append(hist, NewSession(ResolveFlight(flight), t))

\* tracker-v2.mjs: the session table after trackFlight(flight) at time t
TrackFlight(hist, flight, t) ==
    LET f == ResolveFlight(flight)
        i == HistIndex(hist, f.callsign)
    IN  IF i # 0 THEN [hist EXCEPT ![i] = UpdateSession(hist[i], f, t)]
        ELSE HistSet(hist, NewSession(f, t))

\* tracker.mjs: no callsign resolution; a flight first seen outside the radius
\* is skipped before anything is stored or saved
TrackFlightV1(hist, flight, t, radiusNm) ==
    LET i == HistIndex(hist, flight.callsign)
    IN  IF i # 0 THEN [hist EXCEPT ![i] = UpdateSession(hist[i], flight, t)]
        ELSE IF flight.distance > radiusNm THEN hist
        ELSE HistSet(hist, NewSession(flight, t))

\* tracker.mjs returns before saveFlightHistory() for a skipped flight
TrackSavesV1(hist, flight, radiusNm) ==
    HistIndex(hist, flight.callsign) # 0 \/ ~(flight.distance > radiusNm)

(***************************************************************************)
(* Active path buffer                                                      *)
(***************************************************************************)
\* aircraft-db.mjs getAircraftName: TYPE_NAMES[code] || code
GetAircraftName(typeCode) ==
    IF typeCode = NOSTR THEN NOSTR
    ELSE LET code == Trim(ToUpperCase(typeCode))
         IN  IF code = B738 THEN <<"7", "3", "7">>
             ELSE IF code = C56X THEN <<"C", "i", "t", "a", "t", "i", "o", "n">>
             ELSE code

Snapshot(flight, t) ==
    [timestamp |-> t,
     callsign |-> flight.callsign,
     distance |-> flight.distance,
     altitude |-> flight.altitude,
     speed |-> flight.speed,
     aircraftType |-> flight.aircraftType,
     aircraftName |-> GetAircraftName(flight.aircraftType),
     origin |-> flight.origin,
     destination |-> flight.destination,
     icao |-> flight.icao,
     registration |-> flight.registration]

\* variant: nothing is evicted
RecordPathSnapshotNoEvict(path, flight, t) == Append(path, Snapshot(flight, t))

\* variant: at capacity the newest snapshot is dropped instead of the oldest
RecordPathSnapshotDropNewest(path, flight, t) ==
    LET pushed == Append(path, Snapshot(flight, t))
    IN  IF Len(pushed) > MaxPathLen THEN SubSeq(pushed, 1, MaxPathLen) ELSE pushed

\* push, then shift while over capacity
RecordPathSnapshot(path, flight, t) ==
    LET pushed == Append(path, Snapshot(flight, t))
    IN  IF Len(pushed) > MaxPathLen THEN Tail(pushed) ELSE pushed

\* variant: the oldest snapshot is kept instead of the newest
SeedPathOldest(path) == IF path = <<>> THEN <<>> ELSE <<path[1]>>

\* [activeFlightPath[activeFlightPath.length - 1]].filter(Boolean)
\* variant: a new flight starts with an empty path
SeedPathEmpty(path) == <<>>

SeedPath(path) == IF path = <<>> THEN <<>> ELSE <<path[Len(path)]>>

(***************************************************************************)
(* Export throttle                                                         *)
(***************************************************************************)
OverheadNm == 100

\* variant: two snapshots already count as high precision
PrecisionFromTwo(path) ==
    IF Len(path) >= 2 THEN "high" ELSE IF Len(path) > 0 THEN "tracked" ELSE "estimated"

\* the scan of the snapshots lo..hi of the path in order: best is the index
\* held in closestFlight (0 while it is null, minDistance being Infinity),
\* replaced only by a strictly smaller distance. The range is scanned as its
\* first half followed by its second half, the candidate of the first half
\* being known before the second is entered.
RECURSIVE ScanClosest(_, _, _, _)
ScanClosest(path, lo, hi, best) ==
    IF lo > hi THEN best
    ELSE IF lo = hi
         THEN IF best = 0 \/ path[lo].distance < path[best].distance THEN lo ELSE best
         ELSE LET mid == (lo + hi) \div 2
                  first == ScanClosest(path, lo, mid, best)
              IN  IF first = 0 THEN ScanClosest(path, mid + 1, hi, 0)
                  ELSE ScanClosest(path, mid + 1, hi, first)

\* variant: the scan replaces its candidate on an equal distance too
RECURSIVE ScanClosestOrEqual(_, _, _, _)
ScanClosestOrEqual(path, lo, hi, best) ==
    IF lo > hi THEN best
    ELSE IF lo = hi
         THEN IF best = 0 \/ path[lo].distance <= path[best].distance THEN lo ELSE best
         ELSE LET mid == (lo + hi) \div 2
                  first == ScanClosestOrEqual(path, lo, mid, best)
              IN  IF first = 0 THEN ScanClosestOrEqual(path, mid + 1, hi, 0)
                  ELSE ScanClosestOrEqual(path, mid + 1, hi, first)

ClosestIndexLast(path) == ScanClosestOrEqual(path, 1, Len(path), 0)

ClosestIndex(path) == ScanClosest(path, 1, Len(path), 0)

ClosestSessionIndex(hist) ==
    CHOOSE k \in 1..Len(hist) :
        /\ \A j \in 1..Len(hist) : hist[k].closestDistance <= hist[j].closestDistance
        /\ \A j \in 1..(k - 1) : hist[j].closestDistance > hist[k].closestDistance

Precision(path) ==
    IF Len(path) >= 3 THEN "high" ELSE IF Len(path) > 0 THEN "tracked" ELSE "estimated"

WaitingDoc(t) ==
    [status |-> "waiting", callsign |-> NOSTR, distance |-> 0, altitude |-> 0,
     speed |-> 0, snapshotTime |-> 0, precision |-> "none", isOverhead |-> FALSE,
     pathSnapshots |-> 0, timestamp |-> t]

FlightDoc(callsign, distance, altitude, speed, snapshotTime, path, force, t) ==
    [status |-> IF force THEN "completed" ELSE "tracking",
     callsign |-> callsign, distance |-> distance, altitude |-> altitude,
     speed |-> speed, snapshotTime |-> snapshotTime, precision |-> Precision(path),
     isOverhead |-> distance < OverheadNm,
     pathSnapshots |-> Len(path), timestamp |-> t]

\* the document exportWebData builds once the throttle has let the call through
BuildWebData(force, t, path, hist, lastCallsign) ==
    IF path # <<>> THEN
        LET s == path[ClosestIndex(path)]
            best == GetBestCallsign([callsign |-> s.callsign,
                                     registration |-> s.registration,
                                     aircraftType |->
                                         IF s.aircraftName # NOSTR THEN s.aircraftName
                                         ELSE s.aircraftType])
        IN  FlightDoc(best, s.distance, s.altitude, s.speed, s.timestamp, path, force, t)
    ELSE IF hist # <<>> THEN
        LET f == hist[ClosestSessionIndex(hist)]
            best == GetBestCallsign([callsign |-> f.callsign, registration |-> NOSTR,
                                     aircraftType |-> f.aircraftType])
        IN  FlightDoc(best, f.closestDistance, f.closestAltitude, 0, f.lastSeen,
                      path, force, t)
    ELSE WaitingDoc(t)

\* closestFlight.callsign = bestCallsign writes into the snapshot of the path
ExportPath(path) ==
    IF path = <<>> THEN path
    ELSE LET k == ClosestIndex(path)
             s == path[k]
         IN  [path EXCEPT ![k].callsign =
                 GetBestCallsign([callsign |-> s.callsign,
                                  registration |-> s.registration,
                                  aircraftType |->
                                      IF s.aircraftName # NOSTR THEN s.aircraftName
                                      ELSE s.aircraftType])]

\* variant: a call exactly 5000 ms after the last export is suppressed too
ThrottledInclusive(force, t, lastExport) == ~force /\ t - lastExport <= ThrottleMs

\* if (!flightJustLeft && now - lastWebExport < 5000) return;
Throttled(force, t, lastExport) == ~force /\ t - lastExport < ThrottleMs

\* exportWebData(force) at time t; ok: fs.writeFileSync succeeds
ExportWebData(force, t, x, hist, lastCallsign, ok) ==
    IF Throttled(force, t, x.lastWebExport)
    THEN [x EXCEPT !.calls = Append(@, [force |-> force, at |-> t, wrote |-> FALSE,
                                        ok |-> TRUE, prevWrite |-> x.lastWrite,
                                        snapshots |-> Len(x.path),
                                        doc |-> WaitingDoc(t)])]
    ELSE LET doc == BuildWebData(force, t, x.path, hist, lastCallsign)
         IN  [lastWebExport |-> t,
              lastWrite |-> t,
              path |-> ExportPath(x.path),
              webFile |-> IF ok THEN doc ELSE x.webFile,
              calls |-> Append(x.calls, [force |-> force, at |-> t, wrote |-> TRUE,
                                         ok |-> ok, prevWrite |-> x.lastWrite,
                                         snapshots |-> Len(x.path),
                                         doc |-> doc])]

(***************************************************************************)
(* detectFlightType                                                        *)
(***************************************************************************)
GaTypes ==
    {<<"C", "1", "7", "2">>, <<"C", "1", "8", "2">>, <<"C", "2", "0", "8">>,
     <<"S", "R", "2", "2">>, <<"P", "C", "1", "2">>, <<"B", "E", "2", "0">>,
     <<"B", "E", "3", "6">>, <<"P", "A", "3", "1">>, <<"P", "A", "3", "2">>,
     <<"C", "5", "6", "X">>, <<"C", "L", "6", "0">>, <<"G", "L", "E", "X">>,
     <<"G", "L", "F", "4">>, <<"G", "L", "F", "5">>, <<"G", "L", "F", "6">>,
     <<"F", "A", "7", "X">>, <<"F", "A", "8", "X">>, <<"C", "2", "5", "A">>,
     <<"C", "2", "5", "B">>, <<"C", "2", "5", "C">>, <<"C", "6", "8", "0">>,
     <<"C", "7", "0", "0">>, <<"C", "7", "5", "0">>}

\* /^N[0-9]/
IsNNumber(cs) == Len(cs) >= 2 /\ cs[1] = "N" /\ cs[2] \in Digits

\* /^C-[FG]/
IsCanadianReg(cs) == Len(cs) >= 3 /\ cs[1] = "C" /\ cs[2] = "-" /\ cs[3] \in {"F", "G"}

\* /^G-/
IsUkReg(cs) == Len(cs) >= 2 /\ cs[1] = "G" /\ cs[2] = "-"

\* /^[A-Z]{n}[0-9]/
IsAirlinePrefix(cs, n) ==
    /\ Len(cs) >= n + 1
    /\ \A i \in 1..n : cs[i] \in UpperLetters
    /\ cs[n + 1] \in Digits

\* variant: the type list is consulted before the empty-callsign return
DetectFlightTypeByTypeFirst(callsign, aircraftType) ==
    IF ToUpperCase(aircraftType) \in GaTypes THEN "private"
    ELSE IF callsign = NOSTR THEN "unknown"
    ELSE LET cs == ToUpperCase(callsign)
         IN  IF IsNNumber(cs) \/ IsCanadianReg(cs) \/ IsUkReg(cs) THEN "private"
             ELSE IF IsAirlinePrefix(cs, 3) \/ IsAirlinePrefix(cs, 2) THEN "commercial"
             ELSE "unknown"

\* detectFlightType(callsign, aircraftType); NOSTR for a missing value
DetectFlightType(callsign, aircraftType) ==
    IF callsign = NOSTR THEN "unknown"
    ELSE LET cs == ToUpperCase(callsign)
         IN  IF ToUpperCase(aircraftType) \in GaTypes THEN "private"
             ELSE IF IsNNumber(cs) THEN "private"
             ELSE IF IsCanadianReg(cs) THEN "private"
             ELSE IF IsUkReg(cs) THEN "private"
             ELSE IF IsAirlinePrefix(cs, 3) THEN "commercial"
             ELSE IF IsAirlinePrefix(cs, 2) THEN "commercial"
             ELSE "unknown"

(***************************************************************************)
(* Proximity colour and progress; distances and the radius r in hundredths  *)
(* of NM, so d < r * 0.43 is 100 * d < 43 * r                               *)
(***************************************************************************)
\* getProximityColor
GetProximityColor(distanceNm, r) ==
    IF 100 * distanceNm < 43 * r THEN "#FF0000"
    ELSE IF 100 * distanceNm < 71 * r THEN "#FFA500"
    ELSE "#00D9FF"

\* getProximityColorRGB
GetProximityColorRGB(distanceNm, r) ==
    IF 100 * distanceNm < 43 * r THEN <<255, 0, 0>>
    ELSE IF 100 * distanceNm < 71 * r THEN <<255, 165, 0>>
    ELSE <<0, 217, 255>>

\* Math.max(0, Math.min(CONFIG.radiusNm, distanceNm))
Clamp(distanceNm, r) ==
    LET m == IF r <= distanceNm THEN r ELSE distanceNm
    IN  IF m < 0 THEN 0 ELSE m

\* variant: the percentage is truncated instead of rounded
GetProximityProgressFloor(distanceNm, r) ==
    (100 * (r - Clamp(distanceNm, r))) \div r

\* Math.round((1 - clamped / r) * 100): Math.round(x) is floor(x + 1/2)
GetProximityProgress(distanceNm, r) ==
    (200 * (r - Clamp(distanceNm, r)) + r) \div (2 * r)

(***************************************************************************)
(* Screen rotation                                                         *)
(***************************************************************************)
NoTimer == 0

\* formatFlight: the flight view handed to the screen builders
FormatFlight(flight) ==
    [callsign |-> flight.callsign,
     distanceRaw |-> flight.distance,
     origin |-> flight.origin,
     destination |-> flight.destination,
     aircraftType |-> flight.aircraftType,
     flightType |-> DetectFlightType(flight.callsign, flight.aircraftType),
     route |-> IF flight.origin # NOSTR /\ flight.destination # NOSTR
               THEN flight.origin \o <<"→">> \o flight.destination
               ELSE UNKNOWN]

\* String.prototype.split on the arrow
RECURSIVE Split(_, _)
Split(s, sep) ==
    IF \A i \in 1..Len(s) : s[i] # sep THEN <<s>>
    ELSE LET k == CHOOSE i \in 1..Len(s) :
                      s[i] = sep /\ \A j \in 1..(i - 1) : s[j] # sep
         IN  <<SubSeq(s, 1, k - 1)>> \o Split(SubSeq(s, k + 1, Len(s)), sep)

\* the fields of the three payloads that depend on the flight view, apart from
\* the texts of the Distance and Identity screens
BuildScreen1_Distance(data) ==
    [icon |-> IF data.flightType = "private" THEN "helicopter" ELSE "plane",
     pushIcon |-> 2,
     color |-> GetProximityColor(data.distanceRaw, RadiusNm),
     progress |-> GetProximityProgress(data.distanceRaw, RadiusNm),
     progressC |-> GetProximityColorRGB(data.distanceRaw, RadiusNm)]

BuildScreen2_Route(data) ==
    LET parts == IF data.route # UNKNOWN THEN Split(data.route, "→")
                 ELSE <<<<"?">>, <<"?">>>>
    IN  [text |-> parts[1] \o <<"-">> \o parts[2],
         pushIcon |-> 1,
         gradient |-> <<"#00D9FF", "#FFD700">>]

\* variant: every flight that is not private gets the colour cycle
BuildScreen3_RainbowUnlessPrivate(data) ==
    IF data.flightType # "private"
    THEN [icon |-> "plane", pushIcon |-> 2, rainbow |-> TRUE]
    ELSE [icon |-> "helicopter", pushIcon |-> 2, color |-> "#FFD700"]

BuildScreen3_FlightID(data) ==
    LET icon == IF data.flightType = "private" THEN "helicopter" ELSE "plane"
    IN  IF data.flightType = "commercial"
        THEN [icon |-> icon, pushIcon |-> 2, rainbow |-> TRUE]
        ELSE [icon |-> icon, pushIcon |-> 2, color |-> "#FFD700"]

UpdateRequest(screen, data) ==
    [kind |-> "update", screen |-> screen, callsign |-> data.callsign]
ClearRequest == [kind |-> "clear", screen |-> 0, callsign |-> NOSTR]
SettingsRequest == [kind |-> "settings", screen |-> 0, callsign |-> NOSTR]

\* the request sendCurrentScreen issues before its first await
SendCurrentScreen(d) ==
    IF d.data = <<>> THEN <<>> ELSE <<UpdateRequest(d.idx, d.data[1])>>

\* setInterval hands out a handle that no live timer has
FreshTimer(timers) == CHOOSE id \in 1..(Cardinality(timers) + 1) : id \notin timers

\* variant: no early return while a timer is running
StartScreenRotationAlways(data, d) ==
    LET d1 == [d EXCEPT !.data = <<data>>, !.idx = 0]
        id == FreshTimer(d.timers)
    IN  [d1 EXCEPT !.sent = @ \o SendCurrentScreen(d1),
                   !.timer = id,
                   !.timers = @ \cup {id}]

StartScreenRotation(data, d) ==
    LET d1 == [d EXCEPT !.data = <<data>>, !.idx = 0]
    IN  IF d.timer # NoTimer THEN d1
        ELSE LET id == FreshTimer(d.timers)
             IN  [d1 EXCEPT !.sent = @ \o SendCurrentScreen(d1),
                            !.timer = id,
                            !.timers = @ \cup {id}]

\* the body of the interval callback
RotateScreen(d) ==
    LET d1 == [d EXCEPT !.idx = (@ + 1) % ScreenCount]
    IN  [d1 EXCEPT !.sent = @ \o SendCurrentScreen(d1)]

\* variant: the timer is cancelled but the display is not cleared
StopScreenRotationNoClear(d) ==
    [d EXCEPT !.timers = IF d.timer # NoTimer THEN @ \ {d.timer} ELSE @,
              !.timer = NoTimer,
              !.data = <<>>,
              !.idx = 0]

\* variant: the screen index is left where the rotation stopped
StopScreenRotationKeepsIndex(d) ==
    [d EXCEPT !.timers = IF d.timer # NoTimer THEN @ \ {d.timer} ELSE @,
              !.timer = NoTimer,
              !.data = <<>>,
              !.sent = Append(@, ClearRequest)]

\* stopScreenRotation up to its await of clearApp
StopScreenRotation(d) ==
    [d EXCEPT !.timers = IF d.timer # NoTimer THEN @ \ {d.timer} ELSE @,
              !.timer = NoTimer,
              !.data = <<>>,
              !.idx = 0,
              !.sent = Append(@, ClearRequest)]

(***************************************************************************)
(* State                                                                   *)
(***************************************************************************)
VARIABLES
    now,                 \* Date.now()
    pollIntervalSec,     \* CONFIG.pollIntervalSec
    cyclesRemaining,     \* tracker.mjs only
    shown,               \* the screen the device's custom app shows: <<>> or <<index>>
    inflight,            \* requests to the device that have not been answered
    due,                 \* seconds until the interval timer and the sleep timer fire
    budget,              \* how far this run is explored
    isRunning,
    lastFlightCallsign,  \* NOSTR for null
    flightHistory,
    activeFlightPath,
    lastWebExport,
    screenRotationTimer, \* NoTimer for null
    currentScreenIndex,
    latestFlightData,    \* <<>> for null, else <<flight view>>
    historyFile,         \* flights.json
    webFile,             \* flights-web.json, <<>> while never written
    timers,              \* the interval timers that have not been cleared
    pc,                  \* where run() is suspended
    stopping,            \* shutdown() calls suspended in stopScreenRotation
    exitTimers,          \* pending setTimeout(() => process.exit(0), 1000)
    exited,              \* the process has exited
    polls,               \* fetches issued so far
    faults,              \* file writes that failed so far
    signals,             \* SIGINT/SIGTERM received so far
    appends,             \* snapshots recorded so far
    lastWrite,           \* time of the last write of flights-web.json, -1 if none
    log,                 \* per completed fetch: the flight tracked, the requests sent
    ev                   \* what the last step did

vars ==
    <<now, pollIntervalSec, inflight, due, cyclesRemaining, budget, isRunning,
      lastFlightCallsign, flightHistory,
      activeFlightPath, lastWebExport, screenRotationTimer, currentScreenIndex,
      latestFlightData, historyFile, webFile, timers, pc, stopping, exitTimers,
      exited, polls, faults, signals, appends, lastWrite, log, ev, shown>>

trackingVars == <<lastFlightCallsign, flightHistory, activeFlightPath, historyFile>>
exportVars == <<lastWebExport, webFile, lastWrite>>
displayVars == <<screenRotationTimer, currentScreenIndex, latestFlightData, timers>>
shutdownVars == <<isRunning, stopping, exitTimers, exited, signals>>

NoEvent ==
    [op |-> "init", sent |-> <<>>, exports |-> <<>>, tracked |-> <<>>,
     fetchOk |-> TRUE, saved |-> FALSE]

Event(op, sent, exports, tracked, fetchOk, saved) ==
    [op |-> op, sent |-> sent, exports |-> exports, tracked |-> tracked,
     fetchOk |-> fetchOk, saved |-> saved]

\* a session left in flights.json by an earlier run
OldSession ==
    [callsign |-> ASA416, flightNumber |-> NOSTR, aircraftType |-> B738,
     origin |-> NOSTR, destination |-> NOSTR, icao |-> <<"A", "1">>,
     registration |-> NOSTR, firstSeen |-> 1000, lastSeen |-> 3000, duration |-> 2,
     closestDistance |-> 50, closestAltitude |-> 2800, closestSpeed |-> 200,
     initialDistance |-> 60, initialAltitude |-> 3200, initialSpeed |-> 230]

HistoryFiles == {<<>>, <<OldSession>>}

Display ==
    [timer |-> screenRotationTimer, idx |-> currentScreenIndex,
     data |-> latestFlightData, timers |-> timers, sent |-> <<>>]

Exporter ==
    [lastWebExport |-> lastWebExport, lastWrite |-> lastWrite,
     path |-> activeFlightPath, webFile |-> webFile, calls |-> <<>>]

\* what the custom app shows after the device has served the requests in order
RECURSIVE ShowRequests(_, _)
ShowRequests(screen, sent) ==
    IF sent = <<>> THEN screen
    ELSE ShowRequests(IF Head(sent).kind = "update" THEN <<Head(sent).screen>>
                      ELSE IF Head(sent).kind = "clear" THEN <<>>
                      ELSE screen,
                      Tail(sent))

\* the device serves the requests of the step
Device == shown' = ShowRequests(shown, ev'.sent)

\* the module has been loaded and run() has reached its first await (health)
Init ==
    /\ now = StartTime
    /\ pollIntervalSec \in PollIntervals
    /\ cyclesRemaining = 0
    /\ shown = <<>>
    /\ inflight = <<>>
    /\ due = [tick |-> 0, poll |-> 0]
    /\ budget \in Budgets
    /\ isRunning = TRUE
    /\ lastFlightCallsign = NOSTR
    /\ historyFile \in HistoryFiles
    /\ flightHistory = LoadFlightHistory(<<>>, historyFile)
    /\ activeFlightPath = <<>>
    /\ lastWebExport = 0
    /\ screenRotationTimer = NoTimer
    /\ currentScreenIndex = 0
    /\ latestFlightData = <<>>
    /\ webFile = <<>>
    /\ timers = {}
    /\ pc = "health"
    /\ stopping = 0
    /\ exitTimers = 0
    /\ exited = FALSE
    /\ polls = 0
    /\ faults = 0
    /\ signals = 0
    /\ appends = 0
    /\ lastWrite = -1
    /\ log = <<>>
    /\ ev = NoEvent

(***************************************************************************)
(* run()                                                                   *)
(***************************************************************************)
\* while (isRunning) { const flights = await fetchFR24Flights(...)
LoopHead(p) ==
    IF isRunning THEN /\ p < budget.polls
                      /\ pc' = "fetch"
                      /\ polls' = p + 1
    ELSE /\ pc' = "done"
         /\ polls' = p

\* variant: run() goes on to the loop whatever the health check says
HealthCheckedAnyStatus ==
    /\ ~exited
    /\ pc = "health"
    /\ \E status \in {"online", "offline", "error"} :
        /\ pc' = "startDisable"
        /\ exited' = exited
        /\ ev' = Event(IF status = "online" THEN "health" ELSE "offline",
                       <<SettingsRequest>>, <<>>, <<>>, TRUE, FALSE)
    /\ UNCHANGED <<now, pollIntervalSec, inflight, due, cyclesRemaining, budget, trackingVars,
                   exportVars, displayVars,
                   isRunning, stopping, exitTimers, signals, polls, faults, appends, log>>
    /\ Device

\* const health = await awtrix.health(); ... await awtrix.disableNativeApps();
HealthChecked ==
    /\ ~exited
    /\ pc = "health"
    /\ \E status \in {"online", "offline", "error"} :
        IF status = "online"
        THEN /\ pc' = "startDisable"
             /\ exited' = exited
             /\ ev' = Event("health", <<SettingsRequest>>, <<>>, <<>>, TRUE, FALSE)
        ELSE /\ pc' = "exit1"
             /\ exited' = TRUE
             /\ ev' = Event("offline", <<>>, <<>>, <<>>, TRUE, FALSE)
    /\ UNCHANGED <<now, pollIntervalSec, inflight, due, cyclesRemaining, budget, trackingVars,
                   exportVars, displayVars,
                   isRunning, stopping, exitTimers, signals, polls, faults, appends, log>>
    /\ Device

NativeAppsDisabled ==
    /\ ~exited
    /\ pc = "startDisable"
    /\ LoopHead(polls)
    /\ ev' = Event("start", <<>>, <<>>, <<>>, TRUE, FALSE)
    /\ UNCHANGED <<now, pollIntervalSec, inflight, due, cyclesRemaining, budget, trackingVars,
                   exportVars, displayVars,
                   shutdownVars, faults, appends, log>>
    /\ Device

\* variant: the path is cleared before the forced export
EndSessionClearFirst(x, hist, webOk) ==
    LET x1 == ExportWebData(TRUE, now, [x EXCEPT !.path = <<>>], hist,
                            lastFlightCallsign, webOk)
    IN  [x |-> x1,
         lastFlightCallsign |-> NOSTR,
         d |-> StopScreenRotation(Display)]

\* the session-end block of run(): forced export, path cleared, rotation stopped
EndSession(x, hist, webOk) ==
    LET x1 == ExportWebData(TRUE, now, x, hist, lastFlightCallsign, webOk)
    IN  [x |-> [x1 EXCEPT !.path = <<>>],
         lastFlightCallsign |-> NOSTR,
         d |-> StopScreenRotation(Display)]

\* one iteration of the loop body from the answer of the feed to its next await
Iteration(response, saveOk, webOk) ==
    LET flights == SortByKey(FetchFR24Flights(response, RadiusNm), RunZeroKey)
    IN  IF flights = <<>> THEN
            IF lastFlightCallsign # NOSTR THEN
                LET e == EndSession(Exporter, flightHistory, webOk)
                IN  [op |-> "left", pc |-> "clear", hist |-> flightHistory,
                     file |-> historyFile, x |-> e.x, lfc |-> e.lastFlightCallsign,
                     d |-> e.d, tracked |-> <<>>, saved |-> FALSE, appended |-> 0]
            ELSE [op |-> "empty", pc |-> "sleep", hist |-> flightHistory,
                  file |-> historyFile, x |-> Exporter, lfc |-> lastFlightCallsign,
                  d |-> Display, tracked |-> <<>>, saved |-> FALSE, appended |-> 0]
        ELSE
            LET closest == ResolveFlight(flights[1])
                hist == TrackFlight(flightHistory, flights[1], now)
                file == SaveFlightHistory(historyFile, hist, saveOk)
                x0 == [Exporter EXCEPT
                          !.path = RecordPathSnapshot(activeFlightPath, closest, now)]
                x1 == ExportWebData(FALSE, now, x0, hist, lastFlightCallsign, webOk)
            IN  IF ~(closest.distance <= RadiusNm) THEN
                    IF lastFlightCallsign # NOSTR THEN
                        LET e == EndSession(x1, hist, webOk)
                        IN  [op |-> "farLeft", pc |-> "clear", hist |-> hist,
                             file |-> file, x |-> e.x, lfc |-> e.lastFlightCallsign,
                             d |-> e.d, tracked |-> <<closest>>, saved |-> TRUE,
                             appended |-> 1]
                    ELSE [op |-> "far", pc |-> "sleep", hist |-> hist, file |-> file,
                          x |-> x1, lfc |-> lastFlightCallsign, d |-> Display,
                          tracked |-> <<closest>>, saved |-> TRUE, appended |-> 1]
                ELSE IF closest.callsign # lastFlightCallsign THEN
                    [op |-> "newFlight", pc |-> "sleep", hist |-> hist, file |-> file,
                     x |-> [x1 EXCEPT !.path = SeedPath(@)], lfc |-> closest.callsign,
                     d |-> StartScreenRotation(FormatFlight(closest), Display),
                     tracked |-> <<closest>>, saved |-> TRUE, appended |-> 1]
                ELSE
                    [op |-> "sameFlight", pc |-> "sleep", hist |-> hist, file |-> file,
                     x |-> x1, lfc |-> lastFlightCallsign,
                     d |-> StartScreenRotation(FormatFlight(closest), Display),
                     tracked |-> <<closest>>, saved |-> TRUE, appended |-> 1]

\* the file writes of one iteration that failed
FailedWrites(r, saveOk, webOk) ==
    (IF r.saved /\ ~saveOk THEN 1 ELSE 0)
    + Cardinality({i \in 1..Len(r.x.calls) : r.x.calls[i].wrote /\ ~r.x.calls[i].ok})

\* the requests of one kind among those a step issued
Count(sent, kind) == Cardinality({i \in 1..Len(sent) : sent[i].kind = kind})

\* a file write succeeds or fails
WriteOutcomes == IF faults < budget.faults THEN BOOLEAN ELSE {TRUE}

Fetched ==
    /\ ~exited
    /\ pc = "fetch"
    /\ \E response \in FetchResponses, saveOk, webOk \in WriteOutcomes :
        \E r \in {Iteration(response, saveOk, webOk)} :
            /\ r.saved \/ saveOk
            /\ (\E i \in 1..Len(r.x.calls) : r.x.calls[i].wrote) \/ webOk
            /\ faults + FailedWrites(r, saveOk, webOk) <= budget.faults
            /\ appends + r.appended <= MaxAppends
            /\ faults' = faults + FailedWrites(r, saveOk, webOk)
            /\ appends' = appends + r.appended
            /\ flightHistory' = r.hist
            /\ historyFile' = r.file
            /\ activeFlightPath' = r.x.path
            /\ lastWebExport' = r.x.lastWebExport
            /\ lastWrite' = r.x.lastWrite
            /\ webFile' = r.x.webFile
            /\ lastFlightCallsign' = r.lfc
            /\ screenRotationTimer' = r.d.timer
            /\ currentScreenIndex' = r.d.idx
            /\ latestFlightData' = r.d.data
            /\ timers' = r.d.timers
            /\ pc' = r.pc
            /\ ev' = Event(r.op, r.d.sent, r.x.calls, r.tracked, response.ok, r.saved)
            /\ log' = Append(log, [callsign |-> IF r.tracked = <<>> THEN NOSTR
                                                ELSE r.tracked[1].callsign,
                                   renders |-> Count(r.d.sent, "update"),
                                   clears |-> Count(r.d.sent, "clear")])
    /\ UNCHANGED <<now, pollIntervalSec, inflight, due, cyclesRemaining, budget, shutdownVars, polls>>
    /\ Device

\* where a poll cycle can throw: in trackFlight (getBestCallsign on a record
\* whose callsign, registration or type is not text) before anything is
\* changed, or in recordPathSnapshot (enrichFlight's database lookup) after
\* trackFlight has run
ThrowSites == {"track", "enrich"}

\* variant: an error thrown in a poll cycle ends the process
FetchedThrewFatal ==
    /\ ~exited
    /\ pc = "fetch"
    /\ faults < budget.faults
    /\ faults' = faults + 1
    /\ pc' = "exit1"
    /\ exited' = TRUE
    /\ ev' = Event("threw", <<>>, <<>>, <<>>, TRUE, FALSE)
    /\ UNCHANGED <<now, pollIntervalSec, inflight, due, cyclesRemaining, budget, trackingVars,
                   exportVars, displayVars,
                   isRunning, stopping, exitTimers, signals, polls, appends, log>>
    /\ Device

\* a poll cycle with flights in the zone throws: catch (err) { console.error },
\* then await sleep(...); log keeps only the cycles that ran to their end
FetchedThrew ==
    /\ ~exited
    /\ pc = "fetch"
    /\ faults < budget.faults
    /\ \E response \in FetchResponses, site \in ThrowSites :
        LET flights == SortByKey(FetchFR24Flights(response, RadiusNm), RunZeroKey)
        IN  /\ flights # <<>>
            /\ flightHistory' = IF site = "track" THEN flightHistory
                                ELSE TrackFlight(flightHistory, flights[1], now)
            /\ historyFile' = IF site = "track" THEN historyFile
                              ELSE SaveFlightHistory(historyFile, flightHistory', TRUE)
            /\ ev' = Event("threw", <<>>, <<>>,
                           IF site = "track" THEN <<>> ELSE <<ResolveFlight(flights[1])>>,
                           TRUE, site # "track")
    /\ faults' = faults + 1
    /\ pc' = "sleep"
    /\ UNCHANGED <<now, pollIntervalSec, inflight, due, cyclesRemaining, budget, lastFlightCallsign,
                   activeFlightPath,
                   exportVars, displayVars, shutdownVars, polls, appends, log>>
    /\ Device

\* await stopScreenRotation() has returned: await awtrix.disableNativeApps()
ClearDone ==
    /\ ~exited
    /\ pc = "clear"
    /\ pc' = "disable"
    /\ ev' = Event("cleared", <<SettingsRequest>>, <<>>, <<>>, TRUE, FALSE)
    /\ UNCHANGED <<now, pollIntervalSec, inflight, due, cyclesRemaining, budget, trackingVars,
                   exportVars, displayVars,
                   shutdownVars, polls, faults, appends, log>>
    /\ Device

\* await awtrix.disableNativeApps() has returned: await sleep(...)
DisableDone ==
    /\ ~exited
    /\ pc = "disable"
    /\ pc' = "sleep"
    /\ ev' = Event("dark", <<>>, <<>>, <<>>, TRUE, FALSE)
    /\ UNCHANGED <<now, pollIntervalSec, inflight, due, cyclesRemaining, budget, trackingVars,
                   exportVars, displayVars,
                   shutdownVars, polls, faults, appends, log>>
    /\ Device

\* await sleep(CONFIG.pollIntervalSec * 1000) has returned
Wake ==
    /\ ~exited
    /\ pc = "sleep"
    /\ now' = now + pollIntervalSec * 1000
    /\ LoopHead(polls)
    /\ ev' = Event("wake", <<>>, <<>>, <<>>, TRUE, FALSE)
    /\ UNCHANGED <<pollIntervalSec, inflight, due, cyclesRemaining, budget, trackingVars, exportVars,
                   displayVars,
                   shutdownVars, faults, appends, log>>
    /\ Device

(***************************************************************************)
(* The rotation timer and shutdown                                         *)
(***************************************************************************)
\* variant: the tick consumes the flight view it rendered
TimerTickDropsView ==
    /\ ~exited
    /\ \E id \in timers :
        LET d == RotateScreen(Display)
        IN  /\ currentScreenIndex' = d.idx
            /\ ev' = Event("tick", d.sent, <<>>, <<>>, TRUE, FALSE)
    /\ latestFlightData' = <<>>
    /\ UNCHANGED <<now, pollIntervalSec, inflight, due, cyclesRemaining, budget, trackingVars, exportVars,
                   screenRotationTimer, timers, pc,
                   shutdownVars, polls, faults, appends, log>>
    /\ Device

\* an interval timer that has not been cleared fires
TimerTick ==
    /\ ~exited
    /\ \E id \in timers :
        LET d == RotateScreen(Display)
        IN  /\ currentScreenIndex' = d.idx
            /\ ev' = Event("tick", d.sent, <<>>, <<>>, TRUE, FALSE)
    /\ UNCHANGED <<now, pollIntervalSec, inflight, due, cyclesRemaining, budget, trackingVars, exportVars,
                   screenRotationTimer, latestFlightData, timers, pc,
                   shutdownVars, polls, faults, appends, log>>
    /\ Device

\* SIGINT or SIGTERM: shutdown() up to its await of stopScreenRotation()
Shutdown ==
    /\ ~exited
    /\ signals < budget.signals
    /\ signals' = signals + 1
    /\ isRunning' = FALSE
    /\ LET d == StopScreenRotation(Display)
       IN  /\ screenRotationTimer' = d.timer
           /\ currentScreenIndex' = d.idx
           /\ latestFlightData' = d.data
           /\ timers' = d.timers
           /\ ev' = Event("shutdown", d.sent, <<>>, <<>>, TRUE, FALSE)
    /\ stopping' = stopping + 1
    /\ UNCHANGED <<now, pollIntervalSec, inflight, due, cyclesRemaining, budget, trackingVars,
                   exportVars, pc, exitTimers,
                   exited, polls, faults, appends, log>>
    /\ Device

\* setTimeout(() => process.exit(0), 1000)
ShutdownCleared ==
    /\ ~exited
    /\ stopping > 0
    /\ stopping' = stopping - 1
    /\ exitTimers' = exitTimers + 1
    /\ ev' = Event("exitArmed", <<>>, <<>>, <<>>, TRUE, FALSE)
    /\ UNCHANGED <<now, pollIntervalSec, inflight, due, cyclesRemaining, budget, trackingVars,
                   exportVars, displayVars, pc,
                   isRunning, exited, signals, polls, faults, appends, log>>
    /\ Device

Exit ==
    /\ ~exited
    /\ exitTimers > 0
    /\ exited' = TRUE
    /\ ev' = Event("exit", <<>>, <<>>, <<>>, TRUE, FALSE)
    /\ UNCHANGED <<now, pollIntervalSec, inflight, due, cyclesRemaining, budget, trackingVars,
                   exportVars, displayVars, pc,
                   isRunning, stopping, exitTimers, signals, polls, faults, appends, log>>
    /\ Device

Next ==
    \/ HealthChecked
    \/ NativeAppsDisabled
    \/ Fetched
    \/ FetchedThrew
    \/ ClearDone
    \/ DisableDone
    \/ Wake
    \/ TimerTick
    \/ Shutdown
    \/ ShutdownCleared
    \/ Exit

Spec == Init /\ [][Next]_vars

\* the event loop runs every continuation of run() that is ready: a request
\* that has been issued is answered or times out, a sleep timer fires.
\* FetchAnswered is the step of Fetched or FetchedThrew, told by pc alone.
FetchAnswered == ~exited /\ pc = "fetch" /\ pc' \in {"sleep", "clear"}

LiveSpec ==
    /\ Spec
    /\ WF_vars(HealthChecked)
    /\ WF_vars(NativeAppsDisabled)
    /\ WF_pc(FetchAnswered)
    /\ WF_vars(ClearDone)
    /\ WF_vars(DisableDone)
    /\ WF_vars(Wake)

(***************************************************************************)
(* The path buffer on its own: the path operations of run() over a long    *)
(* run (SpecPath), and trackFlight on its own (SpecTrack)                  *)
(***************************************************************************)
MaxTrackCalls == 3

\* the module state before anything has been observed
FreshState(interval) ==
    /\ now = StartTime
    /\ pollIntervalSec = interval
    /\ cyclesRemaining = 0
    /\ shown = <<>>
    /\ inflight = <<>>
    /\ due = [tick |-> 0, poll |-> 0]
    /\ budget = [polls |-> 0, faults |-> 0, signals |-> 0]
    /\ isRunning = TRUE
    /\ lastFlightCallsign = NOSTR
    /\ activeFlightPath = <<>>
    /\ lastWebExport = 0
    /\ screenRotationTimer = NoTimer
    /\ currentScreenIndex = 0
    /\ latestFlightData = <<>>
    /\ webFile = <<>>
    /\ timers = {}
    /\ pc = "fetch"
    /\ stopping = 0
    /\ exitTimers = 0
    /\ exited = FALSE
    /\ polls = 0
    /\ faults = 0
    /\ signals = 0
    /\ appends = 0
    /\ lastWrite = -1
    /\ log = <<>>
    /\ ev = NoEvent

Fresh == FreshState(5)

otherVars ==
    <<pollIntervalSec, inflight, due, cyclesRemaining, shown, budget, isRunning,
      lastFlightCallsign, lastWebExport,
      screenRotationTimer, currentScreenIndex, latestFlightData, webFile, timers, pc,
      stopping, exitTimers, exited, polls, faults, signals, lastWrite, log>>

\* the closest flight of the n-th poll of a long overhead pass
PathFlight(n) == ResolveFlight(Flight(IF n % 2 = 0 THEN ObsA_near ELSE ObsA_mid))

PathInit ==
    /\ Fresh
    /\ historyFile = <<>>
    /\ flightHistory = <<>>

\* a poll with the same closest flight: recordPathSnapshot(closest)
PathAppend ==
    /\ appends < MaxAppends
    /\ activeFlightPath' = RecordPathSnapshot(activeFlightPath, PathFlight(appends), now)
    /\ appends' = appends + 1
    /\ now' = now + pollIntervalSec * 1000
    /\ ev' = Event("append", <<>>, <<>>, <<PathFlight(appends)>>, TRUE, FALSE)
    /\ UNCHANGED <<otherVars, flightHistory, historyFile>>

\* a poll with another closest flight: recordPathSnapshot(closest), then the seed
PathSwitch ==
    /\ appends < MaxAppends
    /\ activeFlightPath' =
          SeedPath(RecordPathSnapshot(activeFlightPath, PathFlight(appends), now))
    /\ appends' = appends + 1
    /\ now' = now + pollIntervalSec * 1000
    /\ ev' = Event("switch", <<>>, <<>>, <<PathFlight(appends)>>, TRUE, FALSE)
    /\ UNCHANGED <<otherVars, flightHistory, historyFile>>

\* a poll with an empty zone: activeFlightPath = []
PathEnd ==
    /\ activeFlightPath # <<>>
    /\ activeFlightPath' = <<>>
    /\ ev' = Event("end", <<>>, <<>>, <<>>, TRUE, FALSE)
    /\ UNCHANGED <<otherVars, flightHistory, historyFile, appends, now>>

PathNext ==
    \/ PathAppend
    \/ PathSwitch
    \/ PathEnd

SpecPath == PathInit /\ [][PathNext]_vars

TrackInit ==
    /\ Fresh
    /\ historyFile \in HistoryFiles
    /\ flightHistory = LoadFlightHistory(<<>>, historyFile)

\* README.md, Session-Based Tracking: "Buffer Window: 5 minutes"
BufferWindowMs == 300000

\* the time to the next observation: the next poll, 10 minutes later, the next day
TrackGaps == {pollIntervalSec * 1000, 2 * BufferWindowMs, 288 * BufferWindowMs}

\* the callsign ASA416 flown back by another airframe
ObsA_return == Observation(<<"A", "9">>, ASA416, N55ZZ, C56X, ASA416, PDX, SEA, FALSE, TRUE, 30, 2500, 190)

TrackObs == RawObs \cup {ObsA_return}

\* trackFlight(flight) for any flight record the feed client can build; log
\* keeps the resolved identity of every call
TrackCall ==
    /\ appends < MaxTrackCalls
    /\ \E obs \in TrackObs :
        /\ flightHistory' = TrackFlight(flightHistory, Flight(obs), now)
        /\ historyFile' = SaveFlightHistory(historyFile, flightHistory', TRUE)
        /\ ev' = Event("track", <<>>, <<>>, <<ResolveFlight(Flight(obs))>>, TRUE, TRUE)
        /\ log' = Append(log, [callsign |-> GetBestCallsign(Flight(obs)),
                               renders |-> 0, clears |-> 0])
    /\ appends' = appends + 1
    /\ \E gap \in TrackGaps : now' = now + gap
    /\ UNCHANGED <<pollIntervalSec, inflight, due, cyclesRemaining, shown, budget, isRunning,
                   lastFlightCallsign, lastWebExport,
                   screenRotationTimer, currentScreenIndex, latestFlightData, webFile,
                   timers, pc, stopping, exitTimers, exited, polls, faults, signals,
                   lastWrite, activeFlightPath>>

TrackNext == TrackCall

SpecTrack == TrackInit /\ [][TrackNext]_vars

(***************************************************************************)
(* getBestCallsign on its own (SpecCallsign)                               *)
(***************************************************************************)
CallsignInputs ==
    {NOSTR, ASA416, <<" ", "a", "s", "a", "4", "1", "6">>, C56X, B738, <<"a", "b">>,
     <<"4", "1", "6">>, <<"4", "A", "B">>, <<" ">>}

RegistrationInputs == {NOSTR, N123AB, n55zz, <<"G", "-", "A", "B">>, <<"N">>}

TypeInputs == {NOSTR, B738, <<" ", "b", "7", "3", "8">>}

CallsignInit ==
    /\ Fresh
    /\ historyFile = <<>>
    /\ flightHistory = <<>>

\* getBestCallsign(flight) for a flight with any of the sample fields
CallsignCall ==
    /\ ev.op = "init"
    /\ \E cs \in CallsignInputs, reg \in RegistrationInputs, type \in TypeInputs :
        LET flight == [callsign |-> cs, registration |-> reg, aircraftType |-> type]
        IN  ev' = [op |-> "callsign", flight |-> flight, result |-> GetBestCallsign(flight)]
    /\ UNCHANGED <<now, otherVars, flightHistory, historyFile, activeFlightPath, appends>>

CallsignNext == CallsignCall

SpecCallsign == CallsignInit /\ [][CallsignNext]_vars

(***************************************************************************)
(* parseFR24Flights on its own (SpecFilter)                                *)
(***************************************************************************)
MaxFilterFeed == 3

\* on the edge of the radius, just beyond it, as far as ObsB_mid, without a
\* position, and on the prime meridian
ObsD_edge == Observation(<<"D", "4">>, ASA416, NOSTR, B738, NOSTR, NOSTR, NOSTR, FALSE, TRUE, RadiusNm, 3000, 200)
ObsD_beyond == Observation(<<"D", "4">>, ASA416, NOSTR, B738, NOSTR, NOSTR, NOSTR, FALSE, TRUE, RadiusNm + 1, 3000, 200)
ObsE_tie == Observation(<<"E", "5">>, AS416, NOSTR, B738, NOSTR, NOSTR, NOSTR, FALSE, TRUE, 35, 2000, 180)
ObsF_nopos == Observation(<<"F", "6">>, N123AB, N123AB, C56X, NOSTR, NOSTR, NOSTR, FALSE, FALSE, 15, 1000, 100)
ObsG_meridian == [ObsE_tie EXCEPT !.icao = <<"G", "7">>, !.lon = <<0>>, !.dist = 40]

FilterObs ==
    {ObsA_near, ObsB_mid, ObsC_ground, ObsD_edge, ObsD_beyond, ObsE_tie, ObsF_nopos,
     ObsG_meridian}

FilterFeeds ==
    {f \in UNION {[1..n -> FilterObs] : n \in 0..MaxFilterFeed} :
        \A i, j \in 1..Len(f) : i # j => f[i].icao # f[j].icao}

FilterInit ==
    /\ Fresh
    /\ historyFile = <<>>
    /\ flightHistory = <<>>

\* parseFR24Flights(data, lat, lon, radiusNm) for any feed of the sample records
FilterCall ==
    /\ ev.op = "init"
    /\ \E raw \in FilterFeeds :
        ev' = [op |-> "filter", raw |-> raw, result |-> ParseFR24Flights(raw, RadiusNm)]
    /\ UNCHANGED <<now, otherVars, flightHistory, historyFile, activeFlightPath, appends>>

FilterNext == FilterCall

SpecFilter == FilterInit /\ [][FilterNext]_vars

\* the distances at which the snapshots of a pass are recorded, hundredths of NM
MaxClosestPath == 4
ClosestDistances == {120, 40, 90}

ClosestFlight(d) == [PathFlight(0) EXCEPT !.distance = d]

\* a session of another aircraft whose closest approach was beyond 1.0 NM
FarSession == [OldSession EXCEPT !.callsign = N55ZZ, !.closestDistance = 130]

ClosestHistories == HistoryFiles \cup {<<FarSession>>, <<FarSession, OldSession>>}

ClosestInit ==
    /\ Fresh
    /\ historyFile \in ClosestHistories
    /\ flightHistory = LoadFlightHistory(<<>>, historyFile)

\* a poll with the same closest flight at some distance: recordPathSnapshot(closest)
ClosestAppend ==
    /\ Len(activeFlightPath) < MaxClosestPath
    /\ \E d \in ClosestDistances :
        /\ activeFlightPath' = RecordPathSnapshot(activeFlightPath, ClosestFlight(d), now)
        /\ ev' = [op |-> "append", path |-> activeFlightPath, force |-> FALSE,
                  at |-> now, wrote |-> FALSE, doc |-> WaitingDoc(now)]
    /\ now' = now + pollIntervalSec * 1000
    /\ UNCHANGED <<otherVars, flightHistory, historyFile, appends>>

\* exportWebData(flightJustLeft), recorded under the name op
ClosestExportAs(op) ==
    /\ \E force \in BOOLEAN :
        \E x \in {ExportWebData(force, now, Exporter, flightHistory,
                                lastFlightCallsign, TRUE)} :
            /\ activeFlightPath' = x.path
            /\ lastWebExport' = x.lastWebExport
            /\ lastWrite' = x.lastWrite
            /\ webFile' = x.webFile
            /\ ev' = [op |-> op, path |-> activeFlightPath, force |-> force,
                      at |-> now, wrote |-> x.calls[1].wrote, doc |-> x.calls[1].doc]
    /\ UNCHANGED <<now, pollIntervalSec, inflight, due, cyclesRemaining, shown, budget, isRunning,
                   lastFlightCallsign,
                   flightHistory, screenRotationTimer, currentScreenIndex,
                   latestFlightData, historyFile, timers, pc, stopping, exitTimers,
                   exited, polls, faults, signals, appends, log>>

\* exportWebData with snapshots in the path
ClosestExport ==
    /\ activeFlightPath # <<>>
    /\ ClosestExportAs("export")

\* exportWebData with an empty path: the session table is scanned instead
FallbackExport ==
    /\ activeFlightPath = <<>>
    /\ ClosestExportAs("fallback")

ClosestNext ==
    \/ ClosestAppend
    \/ ClosestExport
    \/ FallbackExport

SpecClosest == ClosestInit /\ [][ClosestNext]_vars

\* the distances and the radii getProximity* is called with, hundredths of NM
MaxProximityNm == 160
Radii == {RadiusNm, 100, 150}

ProximityInit ==
    /\ Fresh
    /\ historyFile = <<>>
    /\ flightHistory = <<>>

\* the three helpers called as buildScreen1_Distance calls them
ProximityCall ==
    /\ ev.op = "init"
    /\ \E r \in Radii, d \in 0..MaxProximityNm :
        ev' = [op |-> "proximity", d |-> d, r |-> r,
               color |-> GetProximityColor(d, r),
               progressC |-> GetProximityColorRGB(d, r),
               progress |-> GetProximityProgress(d, r)]
    /\ UNCHANGED <<now, otherVars, flightHistory, historyFile, activeFlightPath, appends>>

\* the distances of the feature test's sweep, 0.1 to 0.7 NM
SweepDistances == {10, 20, 30, 40, 50, 60, 70}

\* one pass of the loop of feature test 8: the payload it sends for d, next to
\* what the three helpers of tracker-v2 return for d at radius 0.70
SweepStep ==
    /\ ev.op = "init"
    /\ \E d \in SweepDistances :
        ev' = [op |-> "sweep", d |-> d,
               color |-> IF d < 30 THEN "#FF0000"
                         ELSE IF d < 50 THEN "#FFA500" ELSE "#00D9FF",
               progressC |-> IF d < 30 THEN <<255, 0, 0>>
                             ELSE IF d < 50 THEN <<255, 165, 0>> ELSE <<0, 217, 255>>,
               progress |-> (200 * (70 - d) + 70) \div 140,
               v2 |-> [color |-> GetProximityColor(d, RadiusNm),
                       progressC |-> GetProximityColorRGB(d, RadiusNm),
                       progress |-> GetProximityProgress(d, RadiusNm)]]
    /\ UNCHANGED <<now, otherVars, flightHistory, historyFile, activeFlightPath, appends>>

ProximityNext == ProximityCall \/ SweepStep

SpecProximity == ProximityInit /\ [][ProximityNext]_vars

\* callsigns and type codes as the feed and the aircraft database deliver them
FlightTypeCallsigns ==
    {NOSTR, <<"A", "S", "A", "4", "1", "6">>, <<"a", "s", "a", "4", "1", "6">>,
     <<"U", "A", "1", "2">>, <<"N", "1", "2", "3", "A", "B">>,
     <<"n", "5", "5", "z", "z">>, <<"G", "-", "A", "B">>, <<"C", "-", "F", "A">>,
     <<"C", "-", "G", "B">>, <<"C", "-", "X", "A">>, <<"N">>, <<"N", "A", "B">>,
     <<"A", "1">>, <<"A", "B", "C", "D", "1">>, <<" ", "A", "S", "A", "4", "1", "6">>,
     <<"U", "N", "K", "N", "O", "W", "N">>, <<"4", "A", "B">>}

FlightTypeCodes ==
    {NOSTR, <<"B", "7", "3", "8">>, <<"C", "5", "6", "X">>, <<"c", "1", "7", "2">>,
     <<"C", "1", "7", "2">>, <<"G", "L", "F", "4">>, <<"A", "3", "2", "0">>,
     <<"P", "C", "1">>}

FlightTypeInit ==
    /\ Fresh
    /\ historyFile = <<>>
    /\ flightHistory = <<>>

\* detectFlightType(enriched.callsign, enriched.aircraftType) in formatFlight
FlightTypeCall ==
    /\ ev.op = "init"
    /\ \E callsign \in FlightTypeCallsigns, aircraftType \in FlightTypeCodes :
        ev' = [op |-> "flightType", callsign |-> callsign, aircraftType |-> aircraftType,
               result |-> DetectFlightType(callsign, aircraftType)]
    /\ UNCHANGED <<now, otherVars, flightHistory, historyFile, activeFlightPath, appends>>

FlightTypeNext == FlightTypeCall

SpecFlightType == FlightTypeInit /\ [][FlightTypeNext]_vars

\* airports as the feed delivers them; the empty string when it has none
ScreenOrigins == {NOSTR, SEA}

ScreenDestinations == {NOSTR, PDX}

ScreenDistances == {20, 50}

ScreensInit ==
    /\ Fresh
    /\ historyFile = <<>>
    /\ flightHistory = <<>>

\* formatFlight followed by the three screen builders, as startScreenRotation
\* and sendCurrentScreen apply them to the latest flight view
ScreensCall ==
    /\ ev.op = "init"
    /\ \E callsign \in FlightTypeCallsigns, aircraftType \in FlightTypeCodes,
          origin \in ScreenOrigins, destination \in ScreenDestinations,
          distance \in ScreenDistances :
        \E data \in {FormatFlight([Flight(ObsA_near) EXCEPT
                                       !.callsign = callsign,
                                       !.aircraftType = aircraftType,
                                       !.origin = origin,
                                       !.destination = destination,
                                       !.distance = distance])} :
            ev' = [op |-> "screens", data |-> data,
                   distanceScreen |-> BuildScreen1_Distance(data),
                   routeScreen |-> BuildScreen2_Route(data),
                   identityScreen |-> BuildScreen3_FlightID(data)]
    /\ UNCHANGED <<now, otherVars, flightHistory, historyFile, activeFlightPath, appends>>

ScreensNext == ScreensCall

SpecScreens == ScreensInit /\ [][ScreensNext]_vars

(***************************************************************************)
(* The display requests as HTTP requests: sendApp and clearApp issue a      *)
(* fetch and return a promise; the device serves the requests in flight in  *)
(* the order the network delivers them (SpecAsync)                          *)
(***************************************************************************)
MaxInflight == 2
MaxAsyncPolls == 2

AsyncFeeds == {<<>>, <<ObsA_near>>, <<ObsA_mid>>, <<ObsB_mid>>}

\* variant: a failed update cancels the rotation
SendAnsweredStops(d, success) ==
    IF success THEN d ELSE StopScreenRotationNoClear(d)

\* sendCurrentScreen after its await: if (!result.success) console.error(...)
SendAnswered(d, success) == d

AsyncInit ==
    /\ Fresh
    /\ historyFile = <<>>
    /\ flightHistory = <<>>

\* the loop body as in Fetched, every file write succeeding; the requests it
\* issues are in flight when it reaches its next await
AsyncFetched ==
    /\ pc = "fetch"
    /\ \E data \in AsyncFeeds :
        \E r \in {Iteration([ok |-> TRUE, data |-> data], TRUE, TRUE)} :
            /\ Len(inflight) + Len(r.d.sent) <= MaxInflight
            /\ appends' = appends + r.appended
            /\ flightHistory' = r.hist
            /\ historyFile' = r.file
            /\ activeFlightPath' = r.x.path
            /\ lastWebExport' = r.x.lastWebExport
            /\ lastWrite' = r.x.lastWrite
            /\ webFile' = r.x.webFile
            /\ lastFlightCallsign' = r.lfc
            /\ screenRotationTimer' = r.d.timer
            /\ currentScreenIndex' = r.d.idx
            /\ latestFlightData' = r.d.data
            /\ timers' = r.d.timers
            /\ pc' = r.pc
            /\ inflight' = inflight \o r.d.sent
            /\ ev' = [op |-> r.op, sent |-> r.d.sent]
    /\ UNCHANGED <<now, pollIntervalSec, due, cyclesRemaining, shown, budget,
                   shutdownVars, polls, faults, log>>

\* await stopScreenRotation() returns when the clear request has been
\* answered, whatever the answer: await awtrix.disableNativeApps()
AsyncClearDone ==
    /\ pc = "clear"
    /\ \A i \in 1..Len(inflight) : inflight[i].kind # "clear"
    /\ Len(inflight) < MaxInflight
    /\ pc' = "disable"
    /\ inflight' = Append(inflight, SettingsRequest)
    /\ ev' = [op |-> "cleared", sent |-> <<SettingsRequest>>]
    /\ UNCHANGED <<now, pollIntervalSec, due, cyclesRemaining, shown, budget,
                   trackingVars, exportVars, displayVars, shutdownVars, polls, faults,
                   appends, log>>

\* await awtrix.disableNativeApps() returns: await sleep(...)
AsyncDisableDone ==
    /\ pc = "disable"
    /\ \A i \in 1..Len(inflight) : inflight[i].kind # "settings"
    /\ pc' = "sleep"
    /\ ev' = [op |-> "dark", sent |-> <<>>]
    /\ UNCHANGED <<now, pollIntervalSec, inflight, due, cyclesRemaining, shown, budget,
                   trackingVars, exportVars, displayVars, shutdownVars, polls, faults,
                   appends, log>>

\* await sleep(CONFIG.pollIntervalSec * 1000) returns: the next fetch
AsyncWake ==
    /\ pc = "sleep"
    /\ polls < MaxAsyncPolls
    /\ polls' = polls + 1
    /\ now' = now + pollIntervalSec * 1000
    /\ pc' = "fetch"
    /\ ev' = [op |-> "wake", sent |-> <<>>]
    /\ UNCHANGED <<pollIntervalSec, inflight, due, cyclesRemaining, shown, budget,
                   trackingVars, exportVars, displayVars, shutdownVars, faults,
                   appends, log>>

\* the interval callback: the request of sendCurrentScreen is in flight when
\* the callback returns
AsyncTick ==
    /\ Len(inflight) < MaxInflight
    /\ \E id \in timers :
        LET d == RotateScreen(Display)
        IN  /\ currentScreenIndex' = d.idx
            /\ inflight' = inflight \o d.sent
            /\ ev' = [op |-> "tick", sent |-> d.sent]
    /\ UNCHANGED <<now, pollIntervalSec, due, cyclesRemaining, shown, budget,
                   trackingVars, exportVars, screenRotationTimer, latestFlightData,
                   timers, pc, shutdownVars, polls, faults, appends, log>>

\* one request in flight is answered: the device has applied it (res.ok), or
\* the request has failed; an update's answer resumes sendCurrentScreen
Answer ==
    \E i \in 1..Len(inflight), success \in BOOLEAN :
        LET request == inflight[i]
            d == IF request.kind = "update" THEN SendAnswered(Display, success)
                 ELSE Display
        IN  /\ inflight' = SubSeq(inflight, 1, i - 1)
                              \o SubSeq(inflight, i + 1, Len(inflight))
            /\ shown' = IF success THEN ShowRequests(shown, <<request>>) ELSE shown
            /\ screenRotationTimer' = d.timer
            /\ currentScreenIndex' = d.idx
            /\ latestFlightData' = d.data
            /\ timers' = d.timers
            /\ ev' = [op |-> "answered", sent |-> <<>>, request |-> request,
                      success |-> success]
            /\ UNCHANGED <<now, pollIntervalSec, due, cyclesRemaining, budget,
                           trackingVars, exportVars, pc, shutdownVars, polls, faults,
                           appends, log>>

AsyncNext ==
    \/ AsyncFetched
    \/ AsyncClearDone
    \/ AsyncDisableDone
    \/ AsyncWake
    \/ AsyncTick
    \/ Answer

SpecAsync == AsyncInit /\ [][AsyncNext]_vars

(***************************************************************************)
(* The rotation of a flight that stays in the zone, in time: the interval   *)
(* timer fires every screenDurationMs, the loop polls every pollIntervalSec *)
(* plus the time the request takes (SpecRotation)                           *)
(***************************************************************************)
ScreenDurationSec == 4

\* POLL_INTERVAL as configured: 5, or the default of 10
RotationIntervals == {5, 10}

\* seconds the FR24 request and the loop body take
Latencies == {0, 1}

RotationObs == {ObsA_near, ObsA_mid}

RotationInit ==
    /\ \E interval \in RotationIntervals : FreshState(interval)
    /\ historyFile = <<>>
    /\ flightHistory = <<>>

\* a poll that finds the flight in the zone: the new-flight or same-flight
\* branch of run() as far as the display goes, then sleep
RotationPoll ==
    /\ due.poll = 0
    /\ \E obs \in RotationObs, latency \in Latencies :
        LET closest == ResolveFlight(Flight(obs))
            d == StartScreenRotation(FormatFlight(closest), Display)
        IN  /\ lastFlightCallsign' = closest.callsign
            /\ screenRotationTimer' = d.timer
            /\ currentScreenIndex' = d.idx
            /\ latestFlightData' = d.data
            /\ timers' = d.timers
            /\ due' = [tick |-> IF screenRotationTimer = NoTimer
                                THEN ScreenDurationSec ELSE due.tick,
                       poll |-> pollIntervalSec + latency]
            /\ ev' = [op |-> IF closest.callsign # lastFlightCallsign
                             THEN "newFlight" ELSE "sameFlight",
                      sent |-> d.sent]
    /\ UNCHANGED <<now, pollIntervalSec, inflight, cyclesRemaining, shown, budget,
                   flightHistory, activeFlightPath, historyFile, exportVars, pc,
                   shutdownVars, polls, faults, appends, log>>

\* the interval callback, screenDurationMs after the previous one
RotationTick ==
    /\ screenRotationTimer # NoTimer
    /\ due.tick = 0
    /\ LET d == RotateScreen(Display)
       IN  /\ currentScreenIndex' = d.idx
           /\ ev' = [op |-> "tick", sent |-> d.sent]
    /\ due' = [due EXCEPT !.tick = ScreenDurationSec]
    /\ UNCHANGED <<now, pollIntervalSec, inflight, cyclesRemaining, shown, budget,
                   trackingVars, exportVars, screenRotationTimer, latestFlightData,
                   timers, pc, shutdownVars, polls, faults, appends, log>>

\* a second passes in which neither timer is due
SecondPasses ==
    /\ due.poll > 0
    /\ screenRotationTimer # NoTimer => due.tick > 0
    /\ due' = [tick |-> IF screenRotationTimer # NoTimer THEN due.tick - 1 ELSE due.tick,
               poll |-> due.poll - 1]
    /\ ev' = [op |-> "second", sent |-> <<>>]
    /\ UNCHANGED <<now, pollIntervalSec, inflight, cyclesRemaining, shown, budget,
                   trackingVars, exportVars, displayVars, pc, shutdownVars, polls,
                   faults, appends, log>>

RotationNext ==
    \/ RotationPoll
    \/ RotationTick
    \/ SecondPasses

\* time does not stop: one of the three steps is possible in every state and
\* each of them changes due
TimePasses ==
    /\ due' \in [tick : 0..ScreenDurationSec, poll : 0..11]
    /\ due' # due

SpecRotation == RotationInit /\ [][RotationNext]_vars /\ WF_due(TimePasses)

(***************************************************************************)
(* A long pass: one aircraft is the closest on every poll, nearest on the   *)
(* first poll and circling farther out afterwards, until it leaves          *)
(* (SpecPass)                                                               *)
(***************************************************************************)
\* the feed of the n-th poll of the pass
PassFeed(n) == IF n = 0 THEN <<ObsA_near>> ELSE <<ObsA_mid>>

PassInit ==
    /\ Fresh
    /\ historyFile = <<>>
    /\ flightHistory = <<>>

\* the loop body as in Fetched, every write succeeding: the aircraft is still
\* there, or the zone is empty
PassFetched ==
    /\ pc = "fetch"
    /\ \E data \in {PassFeed(appends), <<>>} :
        \E r \in {Iteration([ok |-> TRUE, data |-> data], TRUE, TRUE)} :
            /\ appends' = appends + r.appended
            /\ flightHistory' = r.hist
            /\ historyFile' = r.file
            /\ activeFlightPath' = r.x.path
            /\ lastWebExport' = r.x.lastWebExport
            /\ lastWrite' = r.x.lastWrite
            /\ webFile' = r.x.webFile
            /\ lastFlightCallsign' = r.lfc
            /\ screenRotationTimer' = r.d.timer
            /\ currentScreenIndex' = r.d.idx
            /\ latestFlightData' = r.d.data
            /\ timers' = r.d.timers
            /\ pc' = r.pc
            /\ ev' = Event(r.op, r.d.sent, r.x.calls, r.tracked, TRUE, r.saved)
    /\ UNCHANGED <<now, pollIntervalSec, inflight, due, cyclesRemaining, budget,
                   shutdownVars, polls, faults, log>>
    /\ Device

\* await sleep(...) returns while the aircraft is in the zone
PassWake ==
    /\ pc = "sleep"
    /\ lastFlightCallsign # NOSTR
    /\ appends < MaxAppends
    /\ now' = now + pollIntervalSec * 1000
    /\ polls' = polls + 1
    /\ pc' = "fetch"
    /\ ev' = Event("wake", <<>>, <<>>, <<>>, TRUE, FALSE)
    /\ UNCHANGED <<pollIntervalSec, inflight, due, cyclesRemaining, budget,
                   trackingVars, exportVars, displayVars, shutdownVars, faults,
                   appends, log>>
    /\ Device

PassNext == PassFetched \/ PassWake

SpecPass == PassInit /\ [][PassNext]_vars

(***************************************************************************)
(* tracker.mjs: the poll loop that notifies the display itself              *)
(***************************************************************************)
\* TRACKER_RADIUS_NM=3; "closest.distance <= 1.5"
WideRadiusNm == 300
CloseNm == 150
MaxPollsV1 == 3

ObsA_wide == [ObsA_far EXCEPT !.dist = 200]
ObsB_wide == [ObsB_mid EXCEPT !.callsign = N55ZZ, !.dist = 220]

ObsV1 == {ObsA_near, ObsA_mid, ObsA_wide, ObsB_mid, ObsB_wide}

FeedsV1 ==
    {f \in UNION {[1..n -> ObsV1] : n \in 0..MaxFeed} :
        \A i, j \in 1..Len(f) : i # j => f[i].icao # f[j].icao}

\* tracker.mjs exportWebData: the callsign is the snapshot's own
BuildWebDataV1(force, t, path, hist, lastCallsign) ==
    IF path # <<>> THEN
        LET c == path[ClosestIndex(path)]
        IN  FlightDoc(IF c.callsign # NOSTR THEN c.callsign
                      ELSE IF lastCallsign # NOSTR THEN lastCallsign ELSE UNKNOWN,
                      c.distance, c.altitude, c.speed, c.timestamp, path, force, t)
    ELSE IF hist # <<>> THEN
        LET f == hist[ClosestSessionIndex(hist)]
        IN  FlightDoc(f.callsign, f.closestDistance, f.closestAltitude, 0, f.lastSeen,
                      path, force, t)
    ELSE WaitingDoc(t)

ExportWebDataV1(force, t, x, hist, lastCallsign) ==
    IF Throttled(force, t, x.lastWebExport) THEN x
    ELSE [x EXCEPT !.lastWebExport = t, !.lastWrite = t,
                   !.webFile = BuildWebDataV1(force, t, x.path, hist, lastCallsign)]

\* awtrix.send(screen) for the screens Distance, Route, Airline+Type
NotifyCycle(flight) ==
    [i \in 1..3 |-> [kind |-> "notify", screen |-> i, callsign |-> flight.callsign]]

\* notifyFlight: 3 cycles for a close flight, 1 otherwise
NotifyFlight(flight, isCloseFlight) ==
    IF isCloseFlight
    THEN NotifyCycle(flight) \o NotifyCycle(flight) \o NotifyCycle(flight)
    ELSE NotifyCycle(flight)

\* one iteration of the loop body of tracker.mjs
IterationV1(response) ==
    LET flights == SortByKey(FetchFR24Flights(response, WideRadiusNm), RunZeroKey)
    IN  IF flights = <<>> THEN
            IF lastFlightCallsign # NOSTR THEN
                [op |-> "left", hist |-> flightHistory, file |-> historyFile,
                 x |-> [ExportWebDataV1(TRUE, now, Exporter, flightHistory,
                                        lastFlightCallsign) EXCEPT !.path = <<>>],
                 lfc |-> NOSTR, cycles |-> cyclesRemaining, close |-> FALSE,
                 sent |-> <<[kind |-> "enableNativeApps", screen |-> 0,
                             callsign |-> NOSTR]>>]
            ELSE [op |-> "empty", hist |-> flightHistory, file |-> historyFile,
                  x |-> Exporter, lfc |-> lastFlightCallsign,
                  cycles |-> cyclesRemaining, close |-> FALSE, sent |-> <<>>]
        ELSE
            LET closest == flights[1]
                hist == TrackFlightV1(flightHistory, closest, now, WideRadiusNm)
                file == IF TrackSavesV1(flightHistory, closest, WideRadiusNm)
                        THEN SaveFlightHistory(historyFile, hist, TRUE)
                        ELSE historyFile
                x0 == [Exporter EXCEPT
                          !.path = RecordPathSnapshot(activeFlightPath, closest, now)]
                x1 == ExportWebDataV1(FALSE, now, x0, hist, lastFlightCallsign)
                isCloseFlight == closest.distance <= CloseNm
            IN  IF closest.callsign # lastFlightCallsign THEN
                    [op |-> "newFlight", hist |-> hist, file |-> file,
                     x |-> [x1 EXCEPT !.path = SeedPath(@)], lfc |-> closest.callsign,
                     cycles |-> cyclesRemaining, close |-> isCloseFlight,
                     sent |-> <<[kind |-> "disableTimeApp", screen |-> 0,
                                 callsign |-> NOSTR]>>
                              \o NotifyFlight(closest, isCloseFlight)]
                ELSE
                    LET shouldNotify == ~isCloseFlight \/ cyclesRemaining > 0
                        cycles == IF isCloseFlight /\ cyclesRemaining > 0
                                  THEN cyclesRemaining - 1 ELSE cyclesRemaining
                    IN  [op |-> "sameFlight", hist |-> hist, file |-> file, x |-> x1,
                         lfc |-> lastFlightCallsign, cycles |-> cycles,
                         close |-> isCloseFlight,
                         sent |-> IF shouldNotify
                                  THEN NotifyFlight(closest, isCloseFlight /\ cycles >= 0)
                                  ELSE <<>>]

InitV1 ==
    /\ Fresh
    /\ historyFile = <<>>
    /\ flightHistory = <<>>

\* fetch, the loop body up to its sleep, and the sleep
PollV1 ==
    /\ polls < MaxPollsV1
    /\ \E data \in FeedsV1 :
        \E r \in {IterationV1([ok |-> TRUE, data |-> data])} :
            /\ flightHistory' = r.hist
            /\ historyFile' = r.file
            /\ activeFlightPath' = r.x.path
            /\ lastWebExport' = r.x.lastWebExport
            /\ lastWrite' = r.x.lastWrite
            /\ webFile' = r.x.webFile
            /\ lastFlightCallsign' = r.lfc
            /\ cyclesRemaining' = r.cycles
            /\ ev' = [op |-> r.op, sent |-> r.sent, close |-> r.close,
                      was |-> lastFlightCallsign]
    /\ polls' = polls + 1
    /\ now' = now + pollIntervalSec * 1000
    /\ UNCHANGED <<pollIntervalSec, inflight, due, shown, budget, isRunning, screenRotationTimer,
                   currentScreenIndex, latestFlightData, timers, pc, stopping,
                   exitTimers, exited, faults, signals, appends, log>>

NextV1 == PollV1

SpecV1 == InitV1 /\ [][NextV1]_vars

(***************************************************************************)
(* The poll loop over feeds that include an aircraft exactly overhead       *)
(***************************************************************************)
\* an aircraft whose computed distance is exactly 0
ObsZ_overhead ==
    [ObsA_far EXCEPT !.icao = <<"Z", "9">>, !.callsign = <<"U", "A", "L", "1", "2">>,
                     !.registration = NOSTR, !.dist = 0]

OverheadObs == {ObsA_near, ObsB_mid, ObsZ_overhead}

OverheadFeeds ==
    {f \in UNION {[1..n -> OverheadObs] : n \in 0..MaxFeed} :
        \A i, j \in 1..Len(f) : i # j => f[i].icao # f[j].icao}

OverheadInit ==
    /\ Init
    /\ pollIntervalSec = 5
    /\ budget.faults = 0
    /\ budget.signals = 0
    /\ historyFile = <<>>

\* the loop body as in Fetched, every write succeeding; the step also records
\* the list fetchFR24Flights returned
OverheadFetched ==
    /\ ~exited
    /\ pc = "fetch"
    /\ \E data \in OverheadFeeds :
        \E r \in {Iteration([ok |-> TRUE, data |-> data], TRUE, TRUE)} :
            /\ appends + r.appended <= MaxAppends
            /\ appends' = appends + r.appended
            /\ flightHistory' = r.hist
            /\ historyFile' = r.file
            /\ activeFlightPath' = r.x.path
            /\ lastWebExport' = r.x.lastWebExport
            /\ lastWrite' = r.x.lastWrite
            /\ webFile' = r.x.webFile
            /\ lastFlightCallsign' = r.lfc
            /\ screenRotationTimer' = r.d.timer
            /\ currentScreenIndex' = r.d.idx
            /\ latestFlightData' = r.d.data
            /\ timers' = r.d.timers
            /\ pc' = r.pc
            /\ ev' = [op |-> r.op, sent |-> r.d.sent, exports |-> r.x.calls,
                      tracked |-> r.tracked, fetchOk |-> TRUE, saved |-> r.saved,
                      flights |-> FetchFR24Flights([ok |-> TRUE, data |-> data],
                                                   RadiusNm)]
    /\ UNCHANGED <<now, pollIntervalSec, inflight, due, cyclesRemaining, budget, shutdownVars, polls,
                   faults, log>>
    /\ Device

OverheadNext ==
    \/ HealthChecked
    \/ NativeAppsDisabled
    \/ OverheadFetched
    \/ ClearDone
    \/ DisableDone
    \/ Wake

SpecOverhead == OverheadInit /\ [][OverheadNext]_vars

(***************************************************************************)
(* Properties                                                              *)
(***************************************************************************)
\* a step of Fetched that called startScreenRotation while a timer was running
RefreshStep ==
    /\ pc = "fetch"
    /\ ev'.op \in {"sameFlight", "newFlight"}
    /\ screenRotationTimer # NoTimer

\* C1: a startScreenRotation call made while the rotation timer is running
\* leaves the timer and currentScreenIndex as they were, whatever the index is.
C1_RefreshKeepsIndex ==
    [][RefreshStep =>
          /\ screenRotationTimer' = screenRotationTimer
          /\ timers' = timers
          /\ currentScreenIndex' = currentScreenIndex]_vars

\* C2: at most one rotation timer exists in every reachable state, and a
\* startScreenRotation call made while a timer is running creates no timer and
\* issues no render.
C2_OneRotationTimer ==
    /\ [](/\ Cardinality(timers) <= 1
          /\ timers = IF screenRotationTimer = NoTimer THEN {} ELSE {screenRotationTimer})
    /\ [][RefreshStep => (timers' = timers /\ Count(ev'.sent, "update") = 0)]_vars

C2_Witness ==
    /\ ev.op = "sameFlight"
    /\ ev.sent = <<>>
    /\ screenRotationTimer # NoTimer
    /\ Cardinality(timers) = 1
    /\ Len(log) >= 2

\* the poll outcomes [no flight, flight, the same flight, no flight]
Scenario ==
    /\ Len(log) = 4
    /\ log[1].callsign = NOSTR
    /\ log[2].callsign # NOSTR
    /\ log[3].callsign = log[2].callsign
    /\ log[4].callsign = NOSTR

\* C3: as long as no signal has arrived, a poll that takes the display from Idle
\* to Active issues exactly one render, of screen 0; one that takes it from
\* Active to Idle issues exactly one clear; a refresh while Active and a poll
\* that leaves the display Idle issue nothing; and the outcomes [no flight,
\* flight, same flight, no flight] give one render and one clear in all.
C3_DisplayTransitions ==
    /\ [][(pc = "fetch" /\ pc' # "fetch" /\ signals = 0) =>
            LET wasActive == screenRotationTimer # NoTimer
                isActive == screenRotationTimer' # NoTimer
            IN  /\ (~wasActive /\ isActive) =>
                        ev'.sent = <<UpdateRequest(0, latestFlightData'[1])>>
                /\ (wasActive /\ ~isActive) => ev'.sent = <<ClearRequest>>
                /\ (wasActive /\ isActive) => ev'.sent = <<>>
                /\ (~wasActive /\ ~isActive) => ev'.sent = <<>>]_vars
    /\ []((Scenario /\ signals = 0) =>
            /\ log[1].renders + log[2].renders + log[3].renders + log[4].renders = 1
            /\ log[1].clears + log[2].clears + log[3].clears + log[4].clears = 1
            /\ log[2].renders = 1
            /\ log[4].clears = 1)

C3_Witness ==
    /\ Scenario
    /\ signals = 0
    /\ log[2].renders = 1
    /\ log[3].renders = 0
    /\ log[4].clears = 1
    /\ ev.op = "left"

\* C4: a non-forced exportWebData call writes nothing when the previous write
\* of the export file was less than 5000 ms ago and writes otherwise; a forced
\* call always writes; so a non-forced write is at least 5000 ms after the
\* previous write.
C4_ExportThrottle ==
    \A i \in 1..Len(ev.exports) :
        LET e == ev.exports[i]
        IN  /\ e.force => e.wrote
            /\ (~e.force /\ e.prevWrite >= 0 /\ e.at - e.prevWrite < ThrottleMs) => ~e.wrote
            /\ (~e.force /\ (e.prevWrite < 0 \/ e.at - e.prevWrite >= ThrottleMs)) => e.wrote
            /\ (~e.force /\ e.wrote /\ e.prevWrite >= 0) => e.at - e.prevWrite >= ThrottleMs

C4_Witness ==
    \E i \in 1..Len(ev.exports) :
        /\ ~ev.exports[i].force
        /\ ~ev.exports[i].wrote
        /\ ev.exports[i].prevWrite >= 0

\* C5: whenever the tracked session ends (the zone is empty, the closest flight
\* is outside the radius, or another aircraft becomes the closest), the same
\* poll cycle writes a forced export with status "completed" for that session.
C5_SessionEndExported ==
    [][(pc = "fetch" /\ lastFlightCallsign # NOSTR
            /\ lastFlightCallsign' # lastFlightCallsign) =>
          \E i \in 1..Len(ev'.exports) :
              /\ ev'.exports[i].force
              /\ ev'.exports[i].wrote
              /\ ev'.exports[i].doc.status = "completed"
              /\ ev'.exports[i].doc.callsign = lastFlightCallsign]_vars

\* C6: a session's closestDistance never increases, and closestDistance,
\* closestAltitude and closestSpeed change only together, to the values of a
\* tracked snapshot whose distance is strictly smaller than the stored one.
C6_ClosestMonotone ==
    [][/\ Len(flightHistory') >= Len(flightHistory)
       /\ \A i \in 1..Len(flightHistory) :
            LET old == flightHistory[i]
                new == flightHistory'[i]
            IN  /\ new.callsign = old.callsign
                /\ new.closestDistance <= old.closestDistance
                /\ (<<new.closestDistance, new.closestAltitude, new.closestSpeed>>
                        # <<old.closestDistance, old.closestAltitude, old.closestSpeed>>) =>
                      /\ ev'.tracked # <<>>
                      /\ ev'.tracked[1].callsign = old.callsign
                      /\ ev'.tracked[1].distance < old.closestDistance
                      /\ new.closestDistance = ev'.tracked[1].distance
                      /\ new.closestAltitude = ev'.tracked[1].altitude
                      /\ new.closestSpeed = ev'.tracked[1].speed]_vars

C6_Witness ==
    /\ ev.tracked # <<>>
    /\ \E i \in 1..Len(flightHistory) :
        /\ flightHistory[i].callsign = ev.tracked[1].callsign
        /\ flightHistory[i].firstSeen < StartTime
        /\ flightHistory[i].lastSeen = now
        /\ flightHistory[i].closestDistance = ev.tracked[1].distance
        /\ flightHistory[i].closestAltitude = ev.tracked[1].altitude
        /\ flightHistory[i].closestDistance < OldSession.closestDistance

\* C7: the active path never holds more than 100 snapshots.
C7_PathBounded == Len(activeFlightPath) <= MaxPathLen

C7_Witness ==
    /\ Len(activeFlightPath) = MaxPathLen
    /\ appends > MaxPathLen

\* C8: appending to a path of 100 snapshots removes the oldest one, keeps the
\* other 99 in order and puts the new snapshot last; appending to a shorter
\* path removes nothing.
C8_FifoEviction ==
    [][ev'.op = "append" =>
          LET s == Snapshot(ev'.tracked[1], now)
          IN  IF Len(activeFlightPath) = MaxPathLen
              THEN activeFlightPath' = Tail(activeFlightPath) \o <<s>>
              ELSE activeFlightPath' = activeFlightPath \o <<s>>]_vars

C8_Witness ==
    /\ ev.op = "append"
    /\ Len(activeFlightPath) = MaxPathLen
    /\ appends > MaxPathLen
    /\ activeFlightPath[1].timestamp > StartTime
    /\ activeFlightPath[MaxPathLen].timestamp > activeFlightPath[MaxPathLen - 1].timestamp

\* C9: a poll cycle whose data-source request fails leaves the session table,
\* the active path, lastFlightCallsign, the published export and the display
\* state unchanged.
C9_FailedFetchChangesNothing ==
    [][(pc = "fetch" /\ ~ev'.fetchOk) =>
          UNCHANGED <<flightHistory, historyFile, activeFlightPath, lastFlightCallsign,
                      webFile, screenRotationTimer, latestFlightData>>]_vars

C11_ReentryCreatesNewEntry ==
    [][(/\ ev'.op = "track"
        /\ HistIndex(flightHistory, ev'.tracked[1].callsign) # 0
        /\ now - flightHistory[HistIndex(flightHistory, ev'.tracked[1].callsign)].lastSeen
                > BufferWindowMs) =>
          LET i == HistIndex(flightHistory, ev'.tracked[1].callsign)
          IN  /\ Len(flightHistory') = Len(flightHistory) + 1
              /\ flightHistory'[i] = flightHistory[i]]_vars

\* the identities of the sessions in a table
Identities(hist) == {hist[i].callsign : i \in 1..Len(hist)}

\* the identities trackFlight has been called with
TrackedIdentities == {log[k].callsign : k \in 1..Len(log)}

WellFormed(cs, type) ==
    /\ Len(cs) >= 3
    /\ cs[1] \in UpperLetters
    /\ \E i \in 1..Len(cs) : cs[i] \notin Digits
    /\ cs # type
    /\ cs \notin BadTypes

\* N followed by one or more letters or digits
NNumber(reg) ==
    /\ Len(reg) >= 2
    /\ reg[1] = "N"
    /\ \A i \in 2..Len(reg) : reg[i] \in UpperLetters \cup Digits

\* C13 as stated: the fallback after the well-formed callsign and the N-number
\* registration is the raw callsign if present, else the raw registration,
\* else "UNKNOWN".
C13_RawFallback ==
    ev.op = "callsign" =>
        LET cs == ToUpperCase(Trim(ev.flight.callsign))
            reg == ToUpperCase(Trim(ev.flight.registration))
            type == ToUpperCase(Trim(ev.flight.aircraftType))
        IN  ev.result =
                IF WellFormed(cs, type) THEN cs
                ELSE IF NNumber(reg) THEN reg
                ELSE IF ev.flight.callsign # NOSTR THEN ev.flight.callsign
                ELSE IF ev.flight.registration # NOSTR THEN ev.flight.registration
                ELSE UNKNOWN

\* C13, amended: getBestCallsign returns the trimmed, upper-cased callsign when
\* it is well-formed; otherwise the trimmed, upper-cased registration when it
\* is N followed by alphanumerics; otherwise the trimmed, upper-cased callsign
\* if it is not empty, else the trimmed, upper-cased registration if it is not
\* empty, else "UNKNOWN". (C56X, N123AB) gives N123AB, and ASA416 gives ASA416
\* for every registration.
C13_CallsignPrecedence ==
    ev.op = "callsign" =>
        LET cs == ToUpperCase(Trim(ev.flight.callsign))
            reg == ToUpperCase(Trim(ev.flight.registration))
            type == ToUpperCase(Trim(ev.flight.aircraftType))
        IN  /\ ev.result =
                  IF WellFormed(cs, type) THEN cs
                  ELSE IF NNumber(reg) THEN reg
                  ELSE IF cs # NOSTR THEN cs
                  ELSE IF reg # NOSTR THEN reg
                  ELSE UNKNOWN
            /\ (ev.flight.callsign = C56X /\ ev.flight.registration = N123AB) =>
                  ev.result = N123AB
            /\ ev.flight.callsign = ASA416 => ev.result = ASA416

\* a type code as callsign gives way to the registration
C13_Witness ==
    /\ ev.op = "callsign"
    /\ ev.flight.callsign = C56X
    /\ ev.flight.registration = N123AB
    /\ ev.result = N123AB

\* the fields of a session that are filled once
FillOnceFields ==
    {"origin", "destination", "flightNumber", "aircraftType", "icao", "registration"}

\* C14: when trackFlight updates an existing session, each of origin,
\* destination, flightNumber, aircraftType, icao and registration keeps its
\* value if it has one, and takes the snapshot's value only if it is unset.
C14_FirstWriteWins ==
    [][(ev'.op = "track" /\ HistIndex(flightHistory, ev'.tracked[1].callsign) # 0) =>
          LET i == HistIndex(flightHistory, ev'.tracked[1].callsign)
          IN  \A f \in FillOnceFields :
                flightHistory'[i][f] =
                    IF flightHistory[i][f] # NOSTR THEN flightHistory[i][f]
                    ELSE ev'.tracked[1][f]]_vars

\* a session with a route has just been tracked with another route, airframe
\* and flight number
C14_Witness ==
    /\ ev.op = "track"
    /\ ev.tracked[1].origin = PDX
    /\ ev.tracked[1].icao = <<"A", "9">>
    /\ \E i \in 1..Len(flightHistory) :
        /\ flightHistory[i].callsign = ev.tracked[1].callsign
        /\ flightHistory[i].lastSeen > flightHistory[i].firstSeen
        /\ flightHistory[i].origin = SEA
        /\ flightHistory[i].destination = PDX
        /\ flightHistory[i].flightNumber = AS416
        /\ flightHistory[i].aircraftType = B738
        /\ flightHistory[i].icao = <<"A", "1">>
        /\ flightHistory[i].registration = N123AB

\* C15: a poll that calls trackFlight keeps the in-memory update and goes on to
\* its next step whether or not the history write succeeds; the write leaves
\* the file as it was or stores the whole current table, and stores the whole
\* table when no write of that poll failed.
C15_SaveFailureKeepsUpdate ==
    [][(pc = "fetch" /\ ev'.saved /\ ev'.op # "threw") =>
          LET i == HistIndex(flightHistory', ev'.tracked[1].callsign)
          IN  /\ i # 0
              /\ flightHistory'[i].lastSeen = now
              /\ pc' \in {"sleep", "clear"}
              /\ lastFlightCallsign' = ev'.tracked[1].callsign
              /\ historyFile' \in {historyFile, flightHistory'}
              /\ faults' = faults => historyFile' = flightHistory']_vars

\* the history write of the first poll failed and that of the second succeeded:
\* the file holds the session created while the write was failing
C15_Witness ==
    /\ faults = 1
    /\ pollIntervalSec = 2
    /\ Len(log) = 2
    /\ log[1].callsign # NOSTR
    /\ log[2].callsign # NOSTR
    /\ log[2].callsign # log[1].callsign
    /\ webFile # <<>>
    /\ ev.saved
    /\ historyFile = flightHistory
    /\ \E i \in 1..Len(historyFile) :
        /\ historyFile[i].callsign = log[1].callsign
        /\ historyFile[i].firstSeen = StartTime

\* C16: once the startup health check has answered anything but online, the
\* process has exited with status 1; no fetch has been issued, the session
\* table and the history file are as loaded, no export has been written, no
\* rotation timer exists and (no signal having arrived) no request has been
\* sent to the display; and nothing happens after an exit.
C16_OfflineExitsBeforeLoop ==
    /\ [](ev.op = "offline" =>
            /\ exited
            /\ pc = "exit1"
            /\ polls = 0
            /\ log = <<>>
            /\ appends = 0
            /\ historyFile \in HistoryFiles
            /\ flightHistory = LoadFlightHistory(<<>>, historyFile)
            /\ activeFlightPath = <<>>
            /\ lastFlightCallsign = NOSTR
            /\ webFile = <<>>
            /\ lastWrite = -1
            /\ lastWebExport = 0
            /\ timers = {}
            /\ screenRotationTimer = NoTimer
            /\ latestFlightData = <<>>
            /\ ev.sent = <<>>
            /\ ev.exports = <<>>)
    /\ [](pc = "exit1" => ev.op = "offline")
    /\ [][exited => UNCHANGED vars]_vars

C16_Witness ==
    /\ ev.op = "offline"
    /\ pc = "exit1"
    /\ exited
    /\ historyFile = <<OldSession>>
    /\ signals = 0

\* C17: a poll cycle that throws leaves the process running with nothing sent
\* and nothing exported, and goes to the sleep at the end of the loop; the only
\* way out of that sleep is the next cycle, one poll interval later, so no
\* fetch is repeated within a cycle; and when no shutdown is signalled, every
\* cycle the run is explored for is reached and completed.
C17_ErrorsCaughtAtLoopBoundary ==
    /\ [][ev'.op = "threw" =>
            /\ pc = "fetch"
            /\ pc' = "sleep"
            /\ ~exited'
            /\ isRunning' = isRunning
            /\ polls' = polls
            /\ now' = now
            /\ ev'.sent = <<>>
            /\ ev'.exports = <<>>]_vars
    /\ [][(pc = "sleep" /\ pc' # "sleep") =>
            /\ now' = now + pollIntervalSec * 1000
            /\ IF isRunning THEN pc' = "fetch" /\ polls' = polls + 1
               ELSE pc' = "done" /\ polls' = polls]_vars
    /\ [][polls' # polls => (polls' = polls + 1 /\ pc \in {"startDisable", "sleep"})]_vars
    /\ (pc = "startDisable" /\ budget.signals = 0)
            ~> (polls = budget.polls /\ pc = "sleep" /\ ~exited)

\* the first cycle threw, and the second ran to its end one interval later
C17_Witness ==
    /\ polls = 2
    /\ faults = 1
    /\ Len(log) = 1
    /\ ev.op = "newFlight"
    /\ pc = "sleep"
    /\ ~exited
    /\ now = StartTime + pollIntervalSec * 1000

\* C18: once a shutdown signal has arrived no poll iteration starts, no
\* rotation timer exists until the process exits, and the signal's own clear
\* request is the only one sent.
C18_ShutdownQuiesces ==
    /\ [][signals > 0 => polls' = polls]_vars
    /\ [](signals > 0 => (screenRotationTimer = NoTimer /\ timers = {}))
    /\ [][(signals = 0 /\ signals' = 1) => Count(ev'.sent, "clear") = 1]_vars
    /\ [][(signals > 0 /\ signals' = signals) => Count(ev'.sent, "clear") = 0]_vars

\* the places in the feed of the observations the claim says are kept
Kept(raw) ==
    {i \in 1..Len(raw) :
        /\ ~raw[i].onGround
        /\ raw[i].lat # <<>>
        /\ raw[i].lon # <<>>
        /\ raw[i].dist <= RadiusNm}

\* C19: the filter returns exactly the observations that are not grounded,
\* have both coordinates and lie at distance <= radius, in ascending order of
\* distance, observations of equal distance in their input order.
C19_FilterExact ==
    ev.op = "filter" =>
        /\ Len(ev.result) = Cardinality(Kept(ev.raw))
        /\ {ev.result[k].icao : k \in 1..Len(ev.result)} =
              {ev.raw[i].icao : i \in Kept(ev.raw)}
        /\ \A k \in 1..Len(ev.result) :
              \E i \in Kept(ev.raw) : ev.result[k] = Flight(ev.raw[i])
        /\ \A k, l \in 1..Len(ev.result) :
              k < l => ev.result[k].distance <= ev.result[l].distance
        /\ \A k, l \in 1..Len(ev.result) :
              (k < l /\ ev.result[k].distance = ev.result[l].distance) =>
                \E i, j \in Kept(ev.raw) :
                    /\ i < j
                    /\ ev.raw[i].icao = ev.result[k].icao
                    /\ ev.raw[j].icao = ev.result[l].icao

\* the orders in which the snapshots of a path could have been appended
Reorderings(path) ==
    {[i \in 1..Len(path) |-> path[f[i]]] :
        f \in {g \in [1..Len(path) -> 1..Len(path)] :
                  \A i, j \in 1..Len(path) : i # j => g[i] # g[j]}}

DistinctDistances(path) ==
    \A i, j \in 1..Len(path) : i # j => path[i].distance # path[j].distance

\* an export that went through the throttle and built its document from the path
Exported == ev.op = "export" /\ ev.wrote

\* C20: the snapshot exportWebData selects from a non-empty path has the minimum
\* distance of the path; among snapshots of that distance it is the one appended
\* earliest; when the distances are distinct the exported document is the same
\* for every order of the same snapshots.
C20_ClosestSnapshot ==
    Exported =>
        /\ \A i \in 1..Len(ev.path) : ev.doc.distance <= ev.path[i].distance
        /\ \E k \in 1..Len(ev.path) :
            /\ ev.path[k].distance = ev.doc.distance
            /\ ev.path[k].timestamp = ev.doc.snapshotTime
            /\ \A j \in 1..(k - 1) : ev.path[j].distance > ev.doc.distance
        /\ DistinctDistances(ev.path) =>
            \A q \in Reorderings(ev.path) :
                BuildWebData(ev.force, ev.at, q, flightHistory, lastFlightCallsign)
                    = ev.doc

\* the path [1.2, 0.4, 0.9] exported with 0.4
C20_Witness ==
    /\ Exported
    /\ [i \in 1..Len(ev.path) |-> ev.path[i].distance] = <<120, 40, 90>>
    /\ ev.doc.distance = 40

RECURSIVE MinOf(_)
MinOf(ds) ==
    IF Len(ds) = 1 THEN ds[1]
    ELSE LET m == MinOf(Tail(ds)) IN IF ds[1] <= m THEN ds[1] ELSE m

\* the distances exportWebData chooses from: the path's, else the session table's
Candidates ==
    IF ev.path # <<>> THEN [i \in 1..Len(ev.path) |-> ev.path[i].distance]
    ELSE [i \in 1..Len(flightHistory) |-> flightHistory[i].closestDistance]

\* an export call that wrote a flight document
FlightDocWritten ==
    /\ ev.op \in {"export", "fallback"}
    /\ ev.wrote
    /\ ev.doc.status # "waiting"

\* C21: every flight document exportWebData writes has precision "high" iff the
\* path holds at least 3 snapshots, "tracked" iff 1 or 2, "estimated" iff it is
\* empty; status "completed" iff the call was forced, else "tracking"; and
\* isOverhead iff the selected closest distance is below 1.0 NM.
C21_DocumentTiers ==
    FlightDocWritten =>
        /\ ev.doc.precision \in {"high", "tracked", "estimated"}
        /\ ev.doc.precision = "high" <=> Len(ev.path) >= 3
        /\ ev.doc.precision = "tracked" <=> Len(ev.path) \in {1, 2}
        /\ ev.doc.precision = "estimated" <=> Len(ev.path) = 0
        /\ ev.doc.status \in {"completed", "tracking"}
        /\ ev.doc.status = "completed" <=> ev.force
        /\ ev.doc.distance = MinOf(Candidates)
        /\ ev.doc.isOverhead <=> MinOf(Candidates) < 100

\* a forced export of three snapshots, none closer than 1.0 NM
C21_Witness ==
    /\ FlightDocWritten
    /\ Len(ev.path) = 3
    /\ ev.force
    /\ ev.doc.precision = "high"
    /\ ~ev.doc.isOverhead

\* the tier a distance falls in: A below 0.43 r, B below 0.71 r, else C
Tier(d, r) ==
    IF 100 * d < 43 * r THEN "A" ELSE IF 100 * d < 71 * r THEN "B" ELSE "C"

TierColor(tier) ==
    IF tier = "A" THEN "#FF0000" ELSE IF tier = "B" THEN "#FFA500" ELSE "#00D9FF"

TierRGB(tier) ==
    IF tier = "A" THEN <<255, 0, 0>>
    ELSE IF tier = "B" THEN <<255, 165, 0>> ELSE <<0, 217, 255>>

CommercialRule(callsign) ==
    LET cs == ToUpperCase(callsign)
    IN  \E n \in {2, 3} :
            /\ Len(cs) > n
            /\ \A i \in 1..n : cs[i] \in UpperLetters
            /\ cs[n + 1] \in Digits

PrivateRule(callsign, aircraftType) ==
    LET cs == ToUpperCase(callsign)
    IN  \/ Len(cs) >= 2 /\ cs[1] = "N" /\ cs[2] \in Digits
        \/ Len(cs) >= 2 /\ cs[1] = "G" /\ cs[2] = "-"
        \/ Len(cs) >= 3 /\ cs[1] = "C" /\ cs[2] = "-" /\ cs[3] \in {"F", "G"}
        \/ ToUpperCase(aircraftType) \in GaTypes

\* C23: detectFlightType returns exactly one of commercial, private, unknown:
\* commercial for a callsign matching ^[A-Z]{2,3}[0-9], private for a callsign
\* matching ^N[0-9], ^G- or ^C-[FG] or a type code of the general-aviation set,
\* unknown for everything else. Where both rules apply either answer is
\* accepted here.
C23_FlightTypeRules ==
    ev.op = "flightType" =>
        /\ ev.result \in {"commercial", "private", "unknown"}
        /\ ev.result = "commercial" => CommercialRule(ev.callsign)
        /\ ev.result = "private" => PrivateRule(ev.callsign, ev.aircraftType)
        /\ ev.result = "unknown" =>
              /\ ~CommercialRule(ev.callsign)
              /\ ~PrivateRule(ev.callsign, ev.aircraftType)

\* a poll in which another aircraft takes over from the one being tracked
SwitchStep ==
    /\ pc = "fetch"
    /\ ev'.op = "newFlight"
    /\ lastFlightCallsign # NOSTR

\* C24 as stated: after a switch the path is exactly the last snapshot that was
\* recorded for the outgoing session.
C24_SeedIsOutgoing ==
    [][SwitchStep =>
          /\ activeFlightPath # <<>>
          /\ activeFlightPath' = <<activeFlightPath[Len(activeFlightPath)]>>]_vars

\* C24: after a switch the path holds exactly one snapshot, the one recorded in
\* this poll for the incoming aircraft; when the session ends because the zone
\* is empty the path is cleared.
C24_SeedIsIncoming ==
    [][/\ SwitchStep =>
            /\ Len(activeFlightPath') = 1
            /\ activeFlightPath'[1].timestamp = now
            /\ activeFlightPath'[1].callsign = lastFlightCallsign'
            /\ activeFlightPath'[1].callsign # lastFlightCallsign
            /\ activeFlightPath'[1].distance = ev'.tracked[1].distance
       /\ (pc = "fetch" /\ ev'.op = "left") =>
            /\ lastFlightCallsign # NOSTR
            /\ activeFlightPath' = <<>>]_vars

\* a switch has happened: the poll before tracked another aircraft
C24_Witness ==
    /\ ev.op = "newFlight"
    /\ Len(log) >= 2
    /\ log[Len(log) - 1].callsign \notin {NOSTR, log[Len(log)].callsign}
    /\ Len(activeFlightPath) = 1
    /\ activeFlightPath[1].callsign = lastFlightCallsign

\* the display notifications among the requests of a step
Notifications(sent) == SelectSeq(sent, LAMBDA m : m.kind = "notify")

\* C25: in tracker.mjs the poll in which a new closest flight within 1.5 NM is
\* detected sends Distance, Route, Airline+Type three times in a row; a later
\* poll in which the same flight is still the closest sends no notification.
C25_NotifyOnlyNewFlight ==
    /\ (ev.op = "newFlight" /\ ev.close) =>
          [i \in 1..Len(Notifications(ev.sent)) |-> Notifications(ev.sent)[i].screen]
              = <<1, 2, 3, 1, 2, 3, 1, 2, 3>>
    /\ ev.op = "sameFlight" => Notifications(ev.sent) = <<>>

\* the steps of the poll cycle that reach trackFlight or the session-end block
PollOps == {"newFlight", "sameFlight", "far", "farLeft", "left", "threw"}

\* C26: a rotation-timer tick leaves the session table, the active path,
\* lastFlightCallsign, lastWebExport and the latest flight view unchanged; the
\* session table and the active path change only in a step of the poll cycle.
C26_TickFrame ==
    [][/\ ev'.op = "tick" =>
            /\ flightHistory' = flightHistory
            /\ activeFlightPath' = activeFlightPath
            /\ lastFlightCallsign' = lastFlightCallsign
            /\ lastWebExport' = lastWebExport
            /\ latestFlightData' = latestFlightData
       /\ (flightHistory' # flightHistory \/ activeFlightPath' # activeFlightPath) =>
            /\ pc = "fetch"
            /\ ev'.op \in PollOps]_vars

\* a tick while a session is tracked and a view is on display
C26_Witness ==
    /\ ev.op = "tick"
    /\ ev.sent # <<>>
    /\ flightHistory # <<>>
    /\ activeFlightPath # <<>>
    /\ latestFlightData # <<>>

\* the render requests among the requests of a step
Updates(sent) == SelectSeq(sent, LAMBDA m : m.kind = "update")

\* C27: while the display is active the screens sent follow the cyclic order
\* Distance, Route, Identity: the first screen sent to a cleared display is
\* Distance, and every later one is the successor (mod 3) of the one sent
\* before it, for every interleaving of poll-cycle refreshes with timer ticks.
C27_CyclicOrder ==
    [][\A i \in 1..Len(Updates(ev'.sent)) :
          LET before == IF i = 1 THEN shown ELSE <<Updates(ev'.sent)[i - 1].screen>>
          IN  Updates(ev'.sent)[i].screen =
                  IF before = <<>> THEN 0 ELSE (before[1] + 1) % 3]_vars

\* the poll cycle ends the session: Active -> Idle
LeftStep ==
    /\ pc = "fetch"
    /\ ev'.op \in {"left", "farLeft"}

\* C28: when the poll cycle ends a session it exports with force while the path
\* still holds the session's snapshots, clears the path, cancels the timer and
\* issues the clear request, and only then the passive-app settings request;
\* after a clear no render request is issued except by the startScreenRotation
\* call that starts the next timer.
C28_SessionEndOrder ==
    [][/\ LeftStep =>
            /\ activeFlightPath # <<>>
            /\ ev'.exports # <<>>
            /\ LET last == ev'.exports[Len(ev'.exports)]
               IN  /\ last.force
                   /\ last.wrote
                   /\ last.doc.status = "completed"
                   /\ last.doc.pathSnapshots >= Len(activeFlightPath)
            /\ activeFlightPath' = <<>>
            /\ screenRotationTimer' = NoTimer
            /\ timers' = timers \ {screenRotationTimer}
            /\ ev'.sent = <<ClearRequest>>
            /\ shown' = <<>>
            /\ pc' = "clear"
       /\ Count(ev'.sent, "settings") > 0 =>
            \/ pc = "clear" /\ pc' = "disable" /\ ev'.sent = <<SettingsRequest>>
            \/ pc = "health" /\ pc' = "startDisable"
       /\ (pc = "clear" /\ pc' # "clear") =>
            \/ pc' = "disable" /\ ev'.sent = <<SettingsRequest>>
            \/ exited'
       /\ (shown = <<>> /\ Updates(ev'.sent) # <<>>) =>
            /\ pc = "fetch"
            /\ ev'.op \in {"newFlight", "sameFlight"}
            /\ screenRotationTimer = NoTimer
            /\ screenRotationTimer' # NoTimer]_vars

\* the session of ASA416 has ended: export completed, path empty, display
\* cleared, passive apps switched off
C28_Witness ==
    /\ pc = "disable"
    /\ ev.sent = <<SettingsRequest>>
    /\ activeFlightPath = <<>>
    /\ screenRotationTimer = NoTimer
    /\ shown = <<>>
    /\ lastFlightCallsign = NOSTR
    /\ webFile # <<>>
    /\ webFile.status = "completed"

\* a poll whose filtered list is not empty has handed its closest flight on
Handed == ev.op \in {"newFlight", "sameFlight"} /\ ev.flights # <<>>

\* C29: in every poll cycle with a non-empty filtered list the observation
\* handed to trackFlight, appended to the path and given to the display has the
\* minimum distance of the list, a distance of exactly 0 included.
C29_ClosestIsMinimum ==
    Handed =>
        /\ \A i \in 1..Len(ev.flights) : ev.tracked[1].distance <= ev.flights[i].distance
        /\ activeFlightPath[Len(activeFlightPath)].distance = ev.tracked[1].distance
        /\ latestFlightData[1].distanceRaw = ev.tracked[1].distance

\* the icon the claim gives a flight of this classification
IconOf(flightType) == IF flightType = "private" THEN "helicopter" ELSE "plane"

\* C30: for every flight view the Distance and Identity screens carry the
\* helicopter icon iff the flight is classified private and the plane icon
\* otherwise; the Identity screen carries the rainbow effect iff the flight is
\* classified commercial and otherwise the fixed colour #FFD700, never both;
\* the Route screen carries the two-colour gradient and the text ORIGIN-DEST,
\* or ?-? when the route is unknown.
C30_ScreenPayloads ==
    ev.op = "screens" =>
        LET data == ev.data
            known == data.origin # NOSTR /\ data.destination # NOSTR
            identity == ev.identityScreen
        IN  /\ data.flightType = DetectFlightType(data.callsign, data.aircraftType)
            /\ ev.distanceScreen.icon = IconOf(data.flightType)
            /\ identity.icon = IconOf(data.flightType)
            /\ ("rainbow" \in DOMAIN identity) <=> (data.flightType = "commercial")
            /\ ("color" \in DOMAIN identity) <=> (data.flightType # "commercial")
            /\ "rainbow" \in DOMAIN identity => identity.rainbow = TRUE
            /\ "color" \in DOMAIN identity => identity.color = "#FFD700"
            /\ ev.routeScreen.gradient = <<"#00D9FF", "#FFD700">>
            /\ ev.routeScreen.text = IF known
                                     THEN data.origin \o <<"-">> \o data.destination
                                     ELSE <<"?", "-", "?">>

\* the screens of a flight of unknown type whose destination is missing: plane
\* icon, fixed colour, ?-?
C30_Witness ==
    /\ ev.op = "screens"
    /\ ev.data.flightType = "unknown"
    /\ ev.data.origin = SEA
    /\ ev.data.destination = NOSTR
    /\ ev.distanceScreen.icon = "plane"
    /\ ev.identityScreen.icon = "plane"
    /\ ev.identityScreen.color = "#FFD700"
    /\ ev.routeScreen.text = <<"?", "-", "?">>

\* the answer of the step reports a failed display update
UpdateFailed(e) == e.op = "answered" /\ e.request.kind = "update" /\ ~e.success

\* C31: a display update that fails is only logged: the failure changes
\* neither the rotation timer nor the latest flight view nor the screen index,
\* the next tick sends the next screen, and the timer is cancelled only where
\* stopScreenRotation runs (a poll that ends the session).
C31_FailedUpdateOnlyLogged ==
    [][/\ UpdateFailed(ev') =>
            /\ screenRotationTimer' = screenRotationTimer
            /\ timers' = timers
            /\ latestFlightData' = latestFlightData
            /\ currentScreenIndex' = currentScreenIndex
       /\ (ev'.op = "tick" /\ latestFlightData # <<>>) =>
            ev'.sent = <<UpdateRequest((currentScreenIndex + 1) % ScreenCount,
                                       latestFlightData[1])>>
       /\ (screenRotationTimer # NoTimer /\ screenRotationTimer' = NoTimer) =>
            ev'.op \in {"left", "farLeft"}]_vars

\* the update of the Route screen has failed: the device still shows the
\* Distance screen, the timer runs and the index stays at the Route screen
C31_Witness ==
    /\ UpdateFailed(ev)
    /\ ev.request.screen = 1
    /\ currentScreenIndex = 1
    /\ screenRotationTimer # NoTimer
    /\ latestFlightData # <<>>
    /\ shown = <<0>>

\* C35: once the clear request of an Active -> Idle transition has taken effect
\* on the device, the device does not show a screen again while the display is
\* Idle: an update still in flight when the clear is issued is not applied
\* after the clear.
C35_NoUpdateAfterClear ==
    [][(shown = <<>> /\ shown' # <<>>) => latestFlightData' # <<>>]_vars

\* C32: for radius 0.70 and every distance of the feature test's sweep, the
\* colour, the bar colour and the progress that tracker-v2 computes equal the
\* values the feature test sends for that distance.
C32_SweepAgrees ==
    ev.op = "sweep" =>
        /\ ev.v2.color = ev.color
        /\ ev.v2.progressC = ev.progressC
        /\ ev.v2.progress = ev.progress

\* a tick has sent the screen of this index
TickSent(screen) ==
    ev.op = "tick" /\ ev.sent # <<>> /\ ev.sent[1].screen = screen

\* C33: while a flight stays in the zone, polls keep refreshing the flight
\* view and the timer keeps firing, each of the three screens is sent
\* infinitely often; in particular the Distance screen is sent again after
\* the initial render.
C33_EveryScreenRecurs ==
    /\ []<>TickSent(0)
    /\ []<>TickSent(1)
    /\ []<>TickSent(2)

\* C34: wherever control is with the event loop, the rotation timer is set iff
\* there is a latest flight view and, as long as no shutdown signal has been
\* received, iff a session is being tracked (lastFlightCallsign is not null);
\* while the display is Idle the screen index is 0.
C34_TimerViewSession ==
    /\ (screenRotationTimer # NoTimer) <=> (latestFlightData # <<>>)
    /\ signals = 0 =>
            ((screenRotationTimer # NoTimer) <=> (lastFlightCallsign # NOSTR))
    /\ screenRotationTimer = NoTimer => currentScreenIndex = 0

\* ASA416 has been tracked, the timer has fired twice and the session has
\* ended: no timer, no view, no session, index back at 0
C34_Witness ==
    /\ ev.op = "left"
    /\ \E k \in 1..Len(log) : log[k].callsign = ASA416
    /\ screenRotationTimer = NoTimer
    /\ latestFlightData = <<>>
    /\ lastFlightCallsign = NOSTR
    /\ currentScreenIndex = 0
    /\ timers = {}

\* C36: whenever the poll loop invokes exportWebData, forced or not, the active
\* path holds at least one snapshot; no document the loop writes carries
\* precision "estimated" or status "waiting".
C36_ExportHasPath ==
    \A i \in 1..Len(ev.exports) :
        /\ ev.exports[i].snapshots >= 1
        /\ ev.exports[i].wrote =>
                /\ ev.exports[i].doc.precision \in {"tracked", "high"}
                /\ ev.exports[i].doc.status \in {"tracking", "completed"}

\* the zone is empty after a session in which a write failed or a poll cycle
\* threw: the forced export found the path of the session and wrote a
\* completed document
C36_Witness ==
    /\ ev.op = "left"
    /\ faults > 0
    /\ Len(ev.exports) = 1
    /\ ev.exports[1].force
    /\ ev.exports[1].wrote
    /\ ev.exports[1].ok
    /\ ev.exports[1].snapshots >= 1
    /\ webFile.status = "completed"
    /\ webFile.precision = "tracked"

\* C37: at every export of a poll cycle the closest approach written with
\* status "tracking" belongs to the aircraft tracked in that cycle (all the
\* snapshots of the path carry its resolved callsign).
C37_TrackingDocIsCurrent ==
    \A i \in 1..Len(ev.exports) :
        (ev.exports[i].wrote /\ ev.exports[i].doc.status = "tracking") =>
            /\ ev.tracked # <<>>
            /\ ev.exports[i].doc.callsign = ev.tracked[1].callsign

\* the least distance at which the session of callsign cs was observed
SessionMinimum(cs) == flightHistory[HistIndex(flightHistory, cs)].closestDistance

\* C38: during one uninterrupted tracking session, however many polls it
\* lasts, the closest-approach distance written by successive exports never
\* increases, and the final "completed" export reports the minimum distance
\* observed during the session.
C38_PublishedClosestMonotone ==
    [][/\ (ev'.op = "sameFlight" /\ webFile # <<>>) =>
            webFile'.distance <= webFile.distance
       /\ ev'.op = "left" =>
            /\ webFile'.status = "completed"
            /\ webFile'.distance = SessionMinimum(lastFlightCallsign)]_vars

\* the fields of a session that are written when it is created
Created(session) ==
    <<session.firstSeen, session.initialDistance, session.initialAltitude,
      session.initialSpeed>>

\* C39: for every session in every reachable state closestDistance <=
\* initialDistance and lastSeen >= firstSeen; firstSeen, initialDistance,
\* initialAltitude and initialSpeed of a session never change after the
\* session has been created.
C39_SessionWellFormed ==
    /\ [](\A i \in 1..Len(flightHistory) :
            /\ flightHistory[i].closestDistance <= flightHistory[i].initialDistance
            /\ flightHistory[i].lastSeen >= flightHistory[i].firstSeen)
    /\ [][\A i \in 1..Len(flightHistory) :
            /\ i <= Len(flightHistory')
            /\ flightHistory'[i].callsign = flightHistory[i].callsign
            /\ Created(flightHistory'[i]) = Created(flightHistory[i])]_vars

\* a session created in this run has been observed again, later and closer
C39_Witness ==
    /\ ev.op = "track"
    /\ \E i \in 1..Len(flightHistory) :
        /\ flightHistory[i].callsign = ev.tracked[1].callsign
        /\ flightHistory[i].firstSeen >= StartTime
        /\ flightHistory[i].lastSeen > flightHistory[i].firstSeen
        /\ flightHistory[i].closestDistance < flightHistory[i].initialDistance
        /\ flightHistory[i].closestDistance = ev.tracked[1].distance

\* C40: the throttle window is counted from the last export that wrote the
\* document: a non-forced export called 5 seconds or more after the last
\* successful write (or before any) is not suppressed, whatever attempts have
\* failed in between.
C40_ThrottleFromLastStored ==
    [][(/\ ev'.exports # <<>>
        /\ ~ev'.exports[1].force
        /\ webFile = <<>> \/ ev'.exports[1].at - webFile.timestamp >= ThrottleMs)
       => ev'.exports[1].wrote]_vars

====
